---- MODULE Spec2Model ----
(***************************************************************************)
(* A model of vtkplotter/shapes.py: the shape factories and the creation   *)
(* registry settings.collectable_actors they append to.                    *)
(*                                                                         *)
(* Objects are identified by the order of their construction (1, 2, ...);  *)
(* None is 0.  names[id] is the name tag of object id ("" while unset).    *)
(* Python values that the code inspects with isSequence/len/isinstance are *)
(* encoded as records with the fields t (type), s (string), v (number) and *)
(* items (elements of a list or tuple).                                    *)
(***************************************************************************)
EXTENDS Integers, Sequences, FiniteSets, TLC

VARIABLES
    collectable_actors, \* settings.collectable_actors: sequence of object ids
    names,              \* names[id]: the name tag of every object built so far
    ret,                \* how the last call ended
    out,                \* the last call's inputs and what it built
    pc,                 \* position inside a call that is modelled step by step
    reg0,               \* the registry as it was when the current/last call began
    line1, line2,       \* the caller's two point lists (arguments of FlatArrow/Ribbon)
    actorArrays,        \* names of the point-data arrays of the caller's actor (argument of Glyph)
    ncalls              \* number of factory calls made

vars == <<collectable_actors, names, ret, out, pc, reg0, line1, line2, actorArrays, ncalls>>

(***************************************************************************)
(* Bounds of the model.                                                    *)
(***************************************************************************)
MaxCalls == 2     \* factory calls per behaviour
MaxPts == 4       \* points per point list (the code branches on len(c) > 3)
MaxKnots == 3     \* input points of a spline
MaxLen == 7       \* length of a segment, in length units
MaxExtraRes == 3  \* explicit spline resolutions tried: 1..MaxExtraRes
MaxArrow == 4     \* coordinates of endPoint - startPoint: -MaxArrow..MaxArrow
MaxSides == 6     \* sides of a polygon
MaxRadius == 3    \* radius of a polygon or of a sphere, in length units
MaxMarkerSize == 14  \* integer sizes of a marker: -1..MaxMarkerSize
MaxAnchor == 10   \* integer positions of a text: -1..MaxAnchor
MaxShapeIndex == 40  \* integer names of parametric shapes: -MaxShapeIndex..MaxShapeIndex
MaxGrid == 3      \* values per coordinate list of a grid

None == 0

(***************************************************************************)
(* Python values.                                                          *)
(***************************************************************************)
PyNone == [t |-> "none", s |-> "", v |-> 0, items |-> <<>>]
PyStr(str) == [t |-> "str", s |-> str, v |-> 0, items |-> <<>>]
PyNum(n) == [t |-> "num", s |-> "", v |-> n, items |-> <<>>]
PyList(xs) == [t |-> "list", s |-> "", v |-> 0, items |-> xs]

\* utils.isSequence: lists, tuples and arrays are sequences; strings and numbers are not
isSequence(x) == x.t = "list"

\* len(x) is defined for lists and strings; on a number it raises TypeError
HasLen(x) == x.t \in {"list", "str"}
PyLen(x) == IF x.t = "list" THEN Len(x.items) ELSE Len(x.s)

\* needle in hay
StrIn(needle, hay) ==
    \E i \in 1..(Len(hay) - Len(needle) + 1) :
        SubSeq(hay, i, i + Len(needle) - 1) = needle

IsRGBList(x) == /\ x.t = "list"
                /\ Len(x.items) = 3
                /\ \A i \in 1..3 : x.items[i].t = "num"

\* colors.getColor, scaled to 0..255: a name or a number is looked up in the
\* palette, a sequence of three numbers is one RGB colour (0..1 or 0..255 scale)
GetColor255(c) ==
    IF c.t = "str" THEN
        CASE c.s = "r" -> <<255, 0, 0>>
          [] c.s = "g" -> <<0, 255, 0>>
          [] c.s = "b" -> <<0, 0, 255>>
          [] c.s = "k" -> <<0, 0, 0>>
          [] c.s = "w" -> <<255, 255, 255>>
          [] c.s = "red" -> <<255, 0, 0>>
          [] c.s = "gold" -> <<255, 215, 0>>
          [] OTHER -> <<128, 128, 128>>
    ELSE IF c.t = "num" THEN <<0, c.v, 255>>
    ELSE IF IsRGBList(c) THEN
        IF \A i \in 1..3 : c.items[i].v <= 1
        THEN <<255 * c.items[1].v, 255 * c.items[2].v, 255 * c.items[3].v>>
        ELSE <<c.items[1].v, c.items[2].v, c.items[3].v>>
    ELSE <<-1, -1, -1>>

(***************************************************************************)
(* The registry.                                                           *)
(***************************************************************************)
\* settings.collectable_actors.append(x)
RegAppend(reg, x) == Append(reg, x)

\* a pop(0) in the place of pop()
RegPopFirst(reg) == SubSeq(reg, 2, Len(reg))

\* settings.collectable_actors.pop()
RegPop(reg) == SubSeq(reg, 1, Len(reg) - 1)

IsActor(x) == x \in 1..Len(names)

Range(f) == {f[i] : i \in DOMAIN f}

(***************************************************************************)
(* Points and _PointsColors.                                               *)
(* A point list is a sequence of coordinate tuples.  The built actor is    *)
(* described by its points, its position, the colour and alpha given to    *)
(* Actor(), and the per-point RGBA array "pointsRGBA" (ucols); an entry of *)
(* ucols is [rgb, a] with a in tenths of a unit (alpha 0.3 is 3).          *)
(***************************************************************************)
NoActor == [npts |-> 0, pts |-> <<>>, pos |-> <<0, 0, 0>>, c |-> PyNone,
            alpha |-> PyNone, ucols |-> <<>>, scalarVis |-> FALSE]

\* a test of the layout that needs more than four points
NormalisePlistLate(plist) ==
    LET n == Len(plist)
        stacked ==
            IF n = 3 /\ Len(plist[1]) > 4
            THEN [j \in 1..Len(plist[1]) |-> <<plist[1][j], plist[2][j], plist[3][j]>>]
            ELSE IF n = 2 /\ Len(plist[1]) > 4
            THEN [j \in 1..Len(plist[1]) |-> <<plist[1][j], plist[2][j], 0>>]
            ELSE plist
    IN  IF Len(stacked[1]) = 2
        THEN [j \in 1..Len(stacked) |-> <<stacked[j][1], stacked[j][2], 0>>]
        ELSE stacked

\* lines 141-149: both layouts are accepted, and 2D points are made 3D
NormalisePlist(plist) ==
    LET n == Len(plist)
        stacked ==
            IF n = 3 /\ Len(plist[1]) > 3
            THEN [j \in 1..Len(plist[1]) |-> <<plist[1][j], plist[2][j], plist[3][j]>>]
            ELSE IF n = 2 /\ Len(plist[1]) > 3
            THEN [j \in 1..Len(plist[1]) |-> <<plist[1][j], plist[2][j], 0>>]
            ELSE plist
    IN  IF Len(stacked[1]) = 2
        THEN [j \in 1..Len(stacked) |-> <<stacked[j][1], stacked[j][2], 0>>]
        ELSE stacked

\* line 152-153: the test that sends a call to _PointsColors
UsesPointsColors(c, alpha) ==
    \/ /\ isSequence(c)
       /\ \/ PyLen(c) > 3
          \/ /\ isSequence(c.items[1])
             /\ PyLen(c.items[1]) = 4
    \/ isSequence(alpha)

\* lines 216-223: the loop that fills ucols, for a sequence cols of length n
FastColors(cols, n) ==
    [i \in 1..n |-> [rgb |-> <<cols.items[i].items[1].v, cols.items[i].items[2].v,
                              cols.items[i].items[3].v>>,
                     a |-> 10 * cols.items[i].items[4].v]]

SlowColors(cols, alphas, n) ==
    [i \in 1..n |-> [rgb |-> GetColor255(cols.items[i]), a |-> alphas[i] * 255]]

_PointsColors(plist, r, cols, alpha) ==
    LET n == Len(plist)
        alphas == IF isSequence(alpha)
                  THEN [i \in 1..Len(alpha.items) |-> alpha.items[i].v]
                  ELSE [i \in 1..n |-> alpha.v]
        alpha1 == IF isSequence(alpha) THEN PyNum(10) ELSE alpha
        built(c, ucols) ==
            [status |-> "returned", exc |-> "",
             actor |-> [npts |-> n, pts |-> plist, pos |-> <<0, 0, 0>>, c |-> c,
                        alpha |-> alpha1, ucols |-> ucols, scalarVis |-> TRUE]]
        fails(e) == [status |-> "raised", exc |-> e, actor |-> NoActor]
    IN  IF ~HasLen(cols) THEN fails("TypeError")
        ELSE IF n # PyLen(cols) THEN fails("RuntimeError")
        ELSE IF isSequence(alpha) /\ PyLen(alpha) # n THEN fails("RuntimeError")
        ELSE IF isSequence(cols) THEN
            IF ~HasLen(cols.items[1]) THEN fails("TypeError")
            ELSE IF PyLen(cols.items[1]) = 4 THEN
                IF \E i \in 1..n : cols.items[i].t # "list" THEN fails("TypeError")
                ELSE IF \E i \in 1..n : Len(cols.items[i].items) # 4 THEN fails("ValueError")
                ELSE built(PyNone, FastColors(cols, n))
            ELSE built(PyNone, SlowColors(cols, alphas, n))
        ELSE built(cols, <<>>)

\* lines 156-182: one colour for all the points
UniformPoints(plist, r, c, alpha) ==
    LET n == Len(plist)
    IN  [status |-> "returned", exc |-> "",
         actor |-> [npts |-> n,
                    pts |-> IF n = 1 THEN << <<0, 0, 0>> >> ELSE plist,
                    pos |-> IF n = 1 THEN plist[1] ELSE <<0, 0, 0>>,
                    c |-> c, alpha |-> alpha, ucols |-> <<>>, scalarVis |-> FALSE]]

\* Points(plist, r, c, alpha) called in state S = [reg, names]
Points(S, plist, r, c, alpha) ==
    IF Len(plist) = 0
    THEN [reg |-> S.reg, names |-> S.names, status |-> "returned", exc |-> "",
          value |-> None, actor |-> NoActor]
    ELSE
        LET pl == NormalisePlist(plist)
            b == IF UsesPointsColors(c, alpha)
                 THEN _PointsColors(pl, r, c, alpha)
                 ELSE UniformPoints(pl, r, c, alpha)
            id == Len(S.names) + 1
        IN  IF b.status = "raised"
            THEN [reg |-> S.reg, names |-> S.names, status |-> "raised", exc |-> b.exc,
                  value |-> None, actor |-> NoActor]
            ELSE [reg |-> RegAppend(S.reg, id), names |-> Append(S.names, "Points"),
                  status |-> "returned", exc |-> "", value |-> id, actor |-> b.actor]

\* the colour and the alpha (in tenths of 1/255) that point k of a built point
\* actor shows: its entry of the per-point array when there is one, else the
\* colour and alpha of the actor
PointColour(actor, k) ==
    IF actor.scalarVis /\ k <= Len(actor.ucols) THEN actor.ucols[k].rgb
    ELSE GetColor255(actor.c)

PointAlpha(actor, k) ==
    IF actor.scalarVis /\ k <= Len(actor.ucols) THEN actor.ucols[k].a
    ELSE 255 * actor.alpha.v

(***************************************************************************)
(* Inputs of Points.                                                       *)
(***************************************************************************)
PointList(n, dim) ==
    [i \in 1..n |-> IF dim = 3 THEN <<i, 0, i>> ELSE <<i, 0>>]

ColourName(k) ==
    CASE k = 1 -> "r" [] k = 2 -> "g" [] k = 3 -> "b" [] k = 4 -> "k"
      [] k = 5 -> "w" [] OTHER -> "gold"

\* the k-th colour of a colour array of the given kind
ColourItem(kind, k) ==
    CASE kind = "rgb" -> PyList(<<PyNum(k), PyNum(0), PyNum(0)>>)
      [] kind = "rgba" -> PyList(<<PyNum(k), PyNum(0), PyNum(0), PyNum(255)>>)
      [] kind = "num" -> PyNum(k)
      [] OTHER -> PyStr(ColourName(k))

ColourKinds == {"rgb", "rgba", "num", "name"}

ColourList(kind, m) == PyList([k \in 1..m |-> ColourItem(kind, k)])

SingleColours == {PyStr("r"), PyStr("red"), PyStr("gold"), PyNum(1)}

\* alpha 1.0, and per-point alphas 0.1, 0.2, ...
AlphaOne == PyNum(10)
AlphaList(m) == PyList([k \in 1..m |-> PyNum(k)])

AllColours == SingleColours \cup
              {ColourList(kind, m) : kind \in ColourKinds, m \in 1..(MaxPts + 1)}
AllAlphas == {AlphaOne} \cup {AlphaList(m) : m \in 1..(MaxPts + 1)}

FewColours == {PyStr("gold"), ColourList("rgb", 2)}
FewAlphas == {AlphaOne, AlphaList(2)}

(***************************************************************************)
(* The state.                                                              *)
(***************************************************************************)
NoCall == [factory |-> "none"]

Init ==
    /\ collectable_actors = <<>>
    /\ names = <<>>
    /\ ret = [factory |-> "none", status |-> "returned", exc |-> "", value |-> None]
    /\ out = NoCall
    /\ pc = "idle"
    /\ reg0 = <<>>
    /\ line1 \in {<<"a1">>, <<"a1", "a2">>, <<"a1", "a2", "a3">>}
    /\ line2 \in {<<"b1", "b2">>}
    /\ actorArrays = {}
    /\ ncalls = 0

CanCall == pc = "idle" /\ ncalls < MaxCalls

Here == [reg |-> collectable_actors, names |-> names]

\* a call that runs from its first line to its end in one step
Finish(factory, R, detail) ==
    /\ collectable_actors' = R.reg
    /\ names' = R.names
    /\ ret' = [factory |-> factory, status |-> R.status, exc |-> R.exc, value |-> R.value]
    /\ out' = detail
    /\ reg0' = collectable_actors
    /\ ncalls' = ncalls + 1
    /\ pc' = "idle"

PointsCall(Ns, Dims, Cs, As) ==
    /\ CanCall
    /\ \E n \in Ns, dim \in Dims, c \in Cs, alpha \in As :
         LET plist == PointList(n, dim)
             R == Points(Here, plist, 5, c, alpha)
         IN  Finish("Points", R, [factory |-> "Points", plist |-> plist, c |-> c,
                                  alpha |-> alpha, actor |-> R.actor])
    /\ UNCHANGED <<line1, line2, actorArrays>>

(***************************************************************************)
(* The layouts of the input of Points.  Point j of the data is             *)
(* (j, 10+j, 20+j); "pts3" is the list of the N points, "pts2" the list of *)
(* their first two coordinates, "rows3" is [all_x, all_y, all_z] and       *)
(* "rows2" is [all_x, all_y].                                              *)
(***************************************************************************)
LayoutPoint(j) == <<j, 10 + j, 20 + j>>

LayoutInput(layout, n) ==
    CASE layout = "pts3" -> [j \in 1..n |-> LayoutPoint(j)]
      [] layout = "pts2" -> [j \in 1..n |-> <<LayoutPoint(j)[1], LayoutPoint(j)[2]>>]
      [] layout = "rows3" -> [k \in 1..3 |-> [j \in 1..n |-> LayoutPoint(j)[k]]]
      [] OTHER -> [k \in 1..2 |-> [j \in 1..n |-> LayoutPoint(j)[k]]]

Layouts == {"pts3", "pts2", "rows3", "rows2"}

PointsLayoutCall ==
    /\ CanCall
    /\ \E layout \in Layouts, n \in 1..(MaxPts + 2),
          c \in {PyStr("gold")} \cup {ColourList("name", m) : m \in 1..(MaxPts + 2)},
          alpha \in {AlphaOne} :
         LET plist == LayoutInput(layout, n)
             R == Points(Here, plist, 5, c, alpha)
         IN  Finish("Points", R, [factory |-> "Points", plist |-> plist, c |-> c,
                                  alpha |-> alpha, actor |-> R.actor,
                                  layout |-> layout, n |-> n])
    /\ UNCHANGED <<line1, line2, actorArrays>>

(***************************************************************************)
(* Latex.  The environment decides how the image is produced:              *)
(*   img = "written"  the image file is produced;                          *)
(*   img = "offline"  build_img_web catches requests' ConnectionError,     *)
(*                    reports it and returns without writing the file;     *)
(*   img = "failed"   building the image raises anything else;             *)
(* and whether Picture() and the calls that follow it on the missing or    *)
(* written file raise.  Every exception is caught by the outer except,     *)
(* which leaves vactor as it is; lines 1948-1950 then run unconditionally. *)
(***************************************************************************)
LatexVactor(S, img, pictureRaises) ==
    IF img = "failed" \/ pictureRaises THEN None ELSE Len(S.names) + 1

Latex(S, img, pictureRaises) ==
    LET vactor == LatexVactor(S, img, pictureRaises)
    IN  IF vactor = None
        THEN \* append(None), then None.name = "Latex" raises AttributeError
             [reg |-> RegAppend(S.reg, None), names |-> S.names,
              status |-> "raised", exc |-> "AttributeError", value |-> None]
        ELSE [reg |-> RegAppend(S.reg, vactor), names |-> Append(S.names, "Latex"),
              status |-> "returned", exc |-> "", value |-> vactor]

LatexCall ==
    /\ CanCall
    /\ \E fromweb \in BOOLEAN, img \in {"written", "offline", "failed"},
          pictureRaises \in BOOLEAN :
         /\ img = "offline" => fromweb
         /\ img = "written" => ~pictureRaises
         /\ Finish("Latex", Latex(Here, img, pictureRaises),
                   [factory |-> "Latex", fromweb |-> fromweb, img |-> img,
                    pictureRaises |-> pictureRaises])
    /\ UNCHANGED <<line1, line2, actorArrays>>

(***************************************************************************)
(* Latex with fromweb=True, step by step.  build_img_web calls             *)
(* requests.get (line 1890) without a timeout argument, so the call waits  *)
(* at that line until the remote end answers, refuses, or fails in some    *)
(* other way; what the remote end does is not under the program's control. *)
(*   pc = "Latex_1890"  waiting inside requests.get                        *)
(*   pc = "Latex_1926"  the image step is over, with out.img telling how   *)
(***************************************************************************)
\* line 1884-1887: the colour name sent to the web site
LatexWebColour(c) == IF c = "k" THEN "Black" ELSE "White"

\* lines 1879-1890, up to the request
LatexWebBegin ==
    /\ CanCall
    /\ \E c \in {"k", "w"} :
         out' = [factory |-> "Latex", fromweb |-> TRUE, img |-> "pending",
                 pictureRaises |-> FALSE, ct |-> LatexWebColour(c)]
    /\ pc' = "Latex_1890"
    /\ reg0' = collectable_actors
    /\ ncalls' = ncalls + 1
    /\ UNCHANGED <<collectable_actors, names, ret, line1, line2, actorArrays>>

\* lines 1890-1896: requests.get comes back with a response (the file is
\* written), with a ConnectionError (caught, reported), or with another
\* exception (taken by the outer except)
LatexWebAnswer ==
    /\ pc = "Latex_1890"
    /\ \E img \in {"written", "offline", "failed"} :
         out' = [out EXCEPT !.img = img]
    /\ pc' = "Latex_1926"
    /\ UNCHANGED <<collectable_actors, names, ret, reg0, line1, line2, actorArrays, ncalls>>

\* lines 1926-1950
LatexWebEnd ==
    /\ pc = "Latex_1926"
    /\ \E pictureRaises \in BOOLEAN :
         /\ out.img = "written" => ~pictureRaises
         /\ out.img = "failed" => ~pictureRaises
         /\ LET R == Latex(Here, out.img, pictureRaises)
            IN  /\ collectable_actors' = R.reg
                /\ names' = R.names
                /\ ret' = [factory |-> "Latex", status |-> R.status, exc |-> R.exc,
                           value |-> R.value]
         /\ out' = [out EXCEPT !.pictureRaises = pictureRaises]
    /\ pc' = "idle"
    /\ UNCHANGED <<reg0, line1, line2, actorArrays, ncalls>>

(***************************************************************************)
(* Tensors.  source is one of the presets, another string, or an Actor.    *)
(***************************************************************************)
\* lines 374-383: the source that is assigned to src; "" when no branch assigns
TensorsSource(source) ==
    IF StrIn("ellip", source) THEN "vtkSphereSource"
    ELSE IF StrIn("cyl", source) THEN "vtkCylinderSource"
    ELSE IF source = "cube" THEN "vtkCubeSource"
    ELSE ""

Tensors(S, source) ==
    IF source = "actor"
    THEN \* src is a polydata, which has no GetOutput (line 391)
         [reg |-> S.reg, names |-> S.names, status |-> "raised",
          exc |-> "AttributeError", value |-> None]
    ELSE IF TensorsSource(source) = ""
    THEN \* no branch of lines 374-383 assigns src; line 384 reads it
         [reg |-> S.reg, names |-> S.names, status |-> "raised",
          exc |-> "UnboundLocalError", value |-> None]
    ELSE [reg |-> S.reg, names |-> Append(S.names, "Tensors"),
          status |-> "returned", exc |-> "", value |-> Len(S.names) + 1]

TensorsCall ==
    /\ CanCall
    /\ \E source \in {"ellipsoid", "cylinder", "cube", "sphere", "Cube", "actor"} :
         Finish("Tensors", Tensors(Here, source),
                [factory |-> "Tensors", source |-> source])
    /\ UNCHANGED <<line1, line2, actorArrays>>

(***************************************************************************)
(* Glyph.  arrays is the set of point-data arrays of the actor passed in.  *)
(* With tol set the code works on a clone of the actor; otherwise poly is  *)
(* the caller's mesh and actor the caller's actor.                         *)
(***************************************************************************)
GlyphInputArrays(arrays, tol, cIsList, orient) ==
    IF tol # 0 THEN arrays
    ELSE arrays
         \cup (IF cIsList THEN {"glyphRGB"} ELSE {})                \* line 271
         \cup (IF orient = "vtkarray" THEN {"orientation"} ELSE {})  \* line 299
         \cup (IF orient = "list" THEN {"glyph_vectors"} ELSE {})    \* line 304

Glyph(S) ==
    [reg |-> RegAppend(S.reg, Len(S.names) + 1), names |-> Append(S.names, "Glyph"),
     status |-> "returned", exc |-> "", value |-> Len(S.names) + 1]

GlyphCall ==
    /\ CanCall
    /\ \E tol \in {0, 1}, cIsList \in BOOLEAN,
          orient \in {"none", "normals", "vtkarray", "list"} :
         /\ Finish("Glyph", Glyph(Here),
                   [factory |-> "Glyph", tol |-> tol, cIsList |-> cIsList,
                    orient |-> orient])
         /\ actorArrays' = GlyphInputArrays(actorArrays, tol, cIsList, orient)
    /\ UNCHANGED <<line1, line2>>

(***************************************************************************)
(* Ribbon and FlatArrow.  A point of the caller's lists is a label; "p1",  *)
(* "p2" and "tip" are the points FlatArrow computes (lines 824-832).       *)
(* FlatArrow is modelled line by line, because it pops the registry.       *)
(***************************************************************************)
Ribbon(S) ==
    [reg |-> RegAppend(S.reg, Len(S.names) + 1), names |-> Append(S.names, "Ribbon"),
     status |-> "returned", exc |-> "", value |-> Len(S.names) + 1]

RibbonCall ==
    /\ CanCall
    /\ Len(line1) >= 2
    /\ Finish("Ribbon", Ribbon(Here), [factory |-> "Ribbon"])
    /\ UNCHANGED <<line1, line2, actorArrays>>

\* lines 834-837
FlatArrowLine1(l1) == l1 \o <<"p1", "tip">>
FlatArrowLine2(l2) == l2 \o <<"p2", "tip">>

\* lines 821-838: line1[-2] raises IndexError on a list of one point
FlatArrowBegin ==
    /\ CanCall
    /\ reg0' = collectable_actors
    /\ ncalls' = ncalls + 1
    /\ IF Len(line1) < 2 \/ Len(line2) < 2
       THEN /\ ret' = [factory |-> "FlatArrow", status |-> "raised",
                       exc |-> "IndexError", value |-> None]
            /\ out' = [factory |-> "FlatArrow", actor |-> None]
            /\ UNCHANGED <<pc, line1, line2>>
       ELSE /\ line1' = FlatArrowLine1(line1)
            /\ line2' = FlatArrowLine2(line2)
            /\ pc' = "FlatArrow_840"
            /\ out' = [factory |-> "FlatArrow", actor |-> None]
            /\ UNCHANGED ret
    /\ UNCHANGED <<collectable_actors, names, actorArrays>>

\* line 840: actor = Ribbon(line1, line2, ...).phong()
FlatArrowRibbon ==
    /\ pc = "FlatArrow_840"
    /\ LET R == Ribbon(Here)
       IN  /\ collectable_actors' = R.reg
           /\ names' = R.names
           /\ out' = [factory |-> "FlatArrow", actor |-> R.value]
    /\ pc' = "FlatArrow_841"
    /\ UNCHANGED <<ret, reg0, line1, line2, actorArrays, ncalls>>

\* line 841: settings.collectable_actors.pop()
FlatArrowPop ==
    /\ pc = "FlatArrow_841"
    /\ collectable_actors' = RegPop(collectable_actors)
    /\ pc' = "FlatArrow_842"
    /\ UNCHANGED <<names, ret, out, reg0, line1, line2, actorArrays, ncalls>>

\* lines 842-844: append the actor, name it, return it
FlatArrowEnd ==
    /\ pc = "FlatArrow_842"
    /\ collectable_actors' = RegAppend(collectable_actors, out.actor)
    /\ names' = [names EXCEPT ![out.actor] = "FlatArrow"]
    /\ ret' = [factory |-> "FlatArrow", status |-> "returned", exc |-> "",
               value |-> out.actor]
    /\ pc' = "idle"
    /\ UNCHANGED <<out, reg0, line1, line2, actorArrays, ncalls>>

(***************************************************************************)
(* Line, for a list of points: builds the polyline and registers it.       *)
(***************************************************************************)
Line(S) ==
    [reg |-> RegAppend(S.reg, Len(S.names) + 1), names |-> Append(S.names, "Line"),
     status |-> "returned", exc |-> "", value |-> Len(S.names) + 1]

(***************************************************************************)
(* KSpline.  A parameter of the curve is a fraction <<num, den>>.  Of      *)
(* vtkKochanekSpline the model keeps what the code relies on: the curve    *)
(* interpolates, so at the integer parameter i it takes the value given    *)
(* with AddPoint(i, .); the parameter is clamped to the range of the       *)
(* knots; a closed spline has one more knot, at len(points), where it is   *)
(* back at the first value; with fewer than two points Evaluate gives 0.   *)
(* A value between two knots is kept as the parameter it was computed at.  *)
(***************************************************************************)
RECURSIVE GCD(_, _)
GCD(a, b) == IF b = 0 THEN a ELSE GCD(b, a % b)

AtKnot(v) == [knot |-> TRUE, v |-> v, t |-> <<0, 1>>]
Between(num, den) ==
    LET g == GCD(num, den) IN [knot |-> FALSE, v |-> 0, t |-> <<num \div g, den \div g>>]

\* spline.Evaluate(pos) for the spline through ys[1], ys[2], ...
SplineEvaluate(ys, closed, pos) ==
    LET n == Len(ys)
        last == IF closed THEN n ELSE n - 1
        num == pos[1]
        den == pos[2]
    IN  IF n < 2 THEN AtKnot(0)
        ELSE IF num >= last * den THEN AtKnot(ys[(last % n) + 1])
        ELSE IF num % den = 0 THEN AtKnot(ys[(num \div den) + 1])
        ELSE Between(num, den)

\* np.linspace(0, stop, res): res parameters from 0 to stop, both included
Linspace(stop, res) ==
    IF res = 1 THEN << <<0, 1>> >>
    ELSE [k \in 1..res |-> <<(k - 1) * stop, res - 1>>]

\* line 671: a sampling that ends at the last knot of an open curve
KSplineParamsToLastKnot(points, res) == Linspace(Len(points) - 1, res)

\* line 671: the parameters at which the curve is sampled
KSplineParams(points, res) == Linspace(Len(points), res)

\* line 653
KSplineRes(points, res) == IF res = 0 THEN Len(points) * 20 ELSE res

\* lines 664-677: the vertices of the polyline; the z test of line 675 reads
\* the dimension of the last input point
KSplineVertices(points, closed, params) ==
    LET xs == [i \in 1..Len(points) |-> points[i][1]]
        ys == [i \in 1..Len(points) |-> points[i][2]]
        zs == [i \in 1..Len(points) |-> IF Len(points[i]) > 2 THEN points[i][3] ELSE 0]
        has3 == Len(points[Len(points)]) > 2
    IN  [k \in 1..Len(params) |->
            <<SplineEvaluate(xs, closed, params[k]),
              SplineEvaluate(ys, closed, params[k]),
              IF has3 THEN SplineEvaluate(zs, closed, params[k]) ELSE AtKnot(0)>>]

KSpline(S, points, closed, res) ==
    IF Len(points) = 0
    THEN \* no vertex at all: Line reads p0[0] of an empty list
         [reg |-> S.reg, names |-> S.names, status |-> "raised", exc |-> "IndexError",
          value |-> None, params |-> <<>>, ln |-> <<>>]
    ELSE
        LET params == KSplineParams(points, KSplineRes(points, res))
            L == Line(S)
        IN  [reg |-> RegAppend(L.reg, L.value),
             names |-> [L.names EXCEPT ![L.value] = "KSpline"],
             status |-> "returned", exc |-> "", value |-> L.value,
             params |-> params, ln |-> KSplineVertices(points, closed, params)]

\* input points of the splines
RECURSIVE SeqsOf(_, _)
SeqsOf(S, n) ==
    IF n = 0 THEN {<<>>}
    ELSE {Append(q, x) : q \in SeqsOf(S, n - 1), x \in S}

SplinePoints3D == {<<0, 0, 0>>, <<1, 0, 0>>, <<1, 1, 2>>}
SplinePoints2D == {<<0, 0>>, <<1, 2>>}
SplineInputs ==
    UNION {SeqsOf(SplinePoints3D, n) \cup SeqsOf(SplinePoints2D, n) : n \in 0..MaxKnots}

KSplineCall ==
    /\ CanCall
    /\ \E points \in SplineInputs, closed \in BOOLEAN, res \in 0..MaxExtraRes :
         LET R == KSpline(Here, points, closed, res)
         IN  Finish("KSpline", R,
                    [factory |-> "KSpline", points |-> points, closed |-> closed,
                     res |-> res, params |-> R.params, ln |-> R.ln])
    /\ UNCHANGED <<line1, line2, actorArrays>>

(***************************************************************************)
(* DashedLine.  The points of the polyline lie on the x axis, <<x, 0, 0>>, *)
(* so that the length of a segment is |x1 - x0|; spacing is a fraction     *)
(* <<num, den>> of a length unit.  A dash is [seg, a, b, n1]: the piece    *)
(* from p0 + a/n1*v to p0 + b/n1*v of segment seg.                         *)
(***************************************************************************)
Abs(x) == IF x < 0 THEN -x ELSE x

\* lines 510-511: spacing 0 stands for an omitted spacing
DashSpacing(listp, spacing) ==
    IF spacing = 0
    THEN <<Abs(listp[Len(listp)][1] - listp[1][1]), 50>>
    ELSE <<spacing, 1>>

\* line 518: n1 = int(norm(v)/spacing), for a spacing that is not zero
DashN1(p0, p1, sp) == (Abs(p1[1] - p0[1]) * sp[2]) \div sp[1]

\* a loop that emits every sub-segment
EmitsEvery(i) == TRUE

\* line 525: the sub-segments that are drawn
EmitsDash(i) == i % 2 = 1

\* lines 521-535: the dashes of one segment
SegmentDashes(seg, n1) ==
    LET emitted(i) == ~((i - 1) > n1) /\ EmitsDash(i)
        idx == SelectSeq([i \in 1..(n1 + 1) |-> i], emitted)
    IN  [j \in 1..Len(idx) |->
            [seg |-> seg, a |-> idx[j] - 1,
             b |-> IF idx[j] > n1 THEN n1 ELSE idx[j], n1 |-> n1]]

\* lines 513-538: the loop over the segments; assigned tells whether poly was
\* ever assigned (line 538), failed the exception of line 518 if any
RECURSIVE DashSegments(_, _, _)
DashSegments(listp, sp, ipt) ==
    IF ipt > Len(listp) - 1 THEN [dashes |-> <<>>, assigned |-> FALSE, failed |-> ""]
    ELSE
        LET p0 == listp[ipt]
            p1 == listp[ipt + 1]
        IN  IF sp[1] = 0
            THEN [dashes |-> <<>>, assigned |-> FALSE,
                  failed |-> IF p0[1] = p1[1] THEN "ValueError" ELSE "OverflowError"]
            ELSE
                LET n1 == DashN1(p0, p1, sp)
                    rest == DashSegments(listp, sp, ipt + 1)
                IN  IF n1 = 0 THEN rest
                    ELSE [dashes |-> SegmentDashes(ipt, n1) \o rest.dashes,
                          assigned |-> TRUE, failed |-> rest.failed]

DashedLine(S, listp, spacing) ==
    LET sp == DashSpacing(listp, spacing)
        lp == DashSegments(listp, sp, 1)
        fails(e) == [reg |-> S.reg, names |-> S.names, status |-> "raised", exc |-> e,
                     value |-> None, dashes |-> <<>>]
    IN  IF lp.failed # "" THEN fails(lp.failed)
        ELSE IF ~lp.assigned THEN fails("UnboundLocalError")
        ELSE [reg |-> RegAppend(S.reg, Len(S.names) + 1),
              names |-> Append(S.names, "DashedLine"),
              status |-> "returned", exc |-> "", value |-> Len(S.names) + 1,
              dashes |-> lp.dashes]

DashInputs ==
    UNION {SeqsOf({<<x, 0, 0>> : x \in 0..MaxLen}, n) : n \in 1..3}

DashedLineCall ==
    /\ CanCall
    /\ \E listp \in DashInputs, spacing \in 0..MaxLen :
         LET R == DashedLine(Here, listp, spacing)
         IN  Finish("DashedLine", R,
                    [factory |-> "DashedLine", listp |-> listp, spacing |-> spacing,
                     dashes |-> R.dashes])
    /\ UNCHANGED <<line1, line2, actorArrays>>

(***************************************************************************)
(* Arrow.  The arithmetic is exact: the end points have integer            *)
(* coordinates, and endPoint - startPoint is taken among the vectors whose *)
(* norm and whose projection on the xy plane have integer lengths, so that *)
(* the sines and cosines of the two angles are fractions.  An angle is     *)
(* [c, s, d]: its cosine is c/d and its sine s/d; a point is [v, d]: the   *)
(* integer vector v divided by d.  The template of vtkArrowSource lies     *)
(* along x, from the origin to its tip (1,0,0).  A vtkTransform            *)
(* premultiplies: the operation given last is applied to a point first.    *)
(***************************************************************************)
VecSub(p, q) == <<p[1] - q[1], p[2] - q[2], p[3] - q[3]>>
VecAdd(p, q) == <<p[1] + q[1], p[2] + q[2], p[3] + q[3]>>

IsSquare(n) == \E r \in 0..n : r * r = n

\* the square root of a perfect square
ISqrt(n) == CHOOSE r \in 0..n : r * r = n

\* line 862: np.linalg.norm, of a vector of integer length
Norm(v) == ISqrt(v[1] * v[1] + v[2] * v[2] + v[3] * v[3])

\* a normalisation that divides whatever the length is
ArrowAlwaysDivides(length) == TRUE

\* line 863: if length
ArrowHasLength(length) == length # 0

\* lines 863-864: the axis is v/d; divided tells that a division was made,
\* byZero that it was made by a zero length
ArrowAxis(v, length) ==
    IF ArrowHasLength(length)
    THEN [divided |-> TRUE, byZero |-> length = 0, v |-> v, d |-> length]
    ELSE [divided |-> FALSE, byZero |-> FALSE, v |-> v, d |-> 1]

\* line 865: np.arccos(zn/zd), an angle of 0..180 degrees (its sine is >= 0)
ArcCos(zn, zd) == [c |-> zn, s |-> ISqrt(zd * zd - zn * zn), d |-> zd]

\* line 866: np.arctan2(y, x) for y = yn/d and x = xn/d with the same d > 0;
\* arctan2(0, 0) is 0
ArcTan2(yn, xn) ==
    LET h == ISqrt(xn * xn + yn * yn)
    IN  IF h = 0 THEN [c |-> 1, s |-> 0, d |-> 1] ELSE [c |-> xn, s |-> yn, d |-> h]

\* the angle of -90 degrees (line 879)
MinusQuarterTurn == [c |-> 0, s |-> 0 - 1, d |-> 1]

\* vtkTransform.RotateZ, RotateY and Scale, applied to the point p
RotateZ(a, p) ==
    [v |-> <<a.c * p.v[1] - a.s * p.v[2], a.s * p.v[1] + a.c * p.v[2], a.d * p.v[3]>>,
     d |-> a.d * p.d]
RotateY(a, p) ==
    [v |-> <<a.c * p.v[1] + a.s * p.v[3], a.d * p.v[2], a.c * p.v[3] - a.s * p.v[1]>>,
     d |-> a.d * p.d]
Scale(sx, sy, sz, p) == [v |-> <<sx * p.v[1], sy * p.v[2], sz * p.v[3]>>, d |-> p.d]

\* a transform without the rotation of line 879
ArrowTransformNoTilt(phi, theta, sc, p) ==
    RotateZ(phi, RotateY(theta, Scale(sc[1], sc[2], sc[3], p)))

\* lines 876-884: RotateZ(phi), RotateY(theta), RotateY(-90), Scale(...)
ArrowTransform(phi, theta, sc, p) ==
    RotateZ(phi, RotateY(theta, RotateY(MinusQuarterTurn, Scale(sc[1], sc[2], sc[3], p))))

\* lines 880-884: s = 0 stands for s=None; the section scale 800*s is kept
\* as the number s
ArrowScale(length, s) == IF s # 0 THEN <<length, s, s>> ELSE <<length, length, length>>

ArrowTemplateTip == [v |-> <<1, 0, 0>>, d |-> 1]

Arrow(S, startPoint, endPoint, s) ==
    LET v == VecSub(endPoint, startPoint)
        length == Norm(v)
        axis == ArrowAxis(v, length)
        theta == ArcCos(axis.v[3], axis.d)
        phi == ArcTan2(axis.v[2], axis.v[1])
        id == Len(S.names) + 1
    IN  [reg |-> RegAppend(S.reg, id), names |-> Append(S.names, "Arrow"),
         status |-> "returned", exc |-> "", value |-> id,
         axis |-> axis, theta |-> theta, phi |-> phi,
         tip |-> ArrowTransform(phi, theta, ArrowScale(length, s), ArrowTemplateTip),
         pos |-> startPoint, base |-> startPoint, top |-> endPoint]

\* the vectors with coordinates in -MaxArrow..MaxArrow whose length and whose
\* projection on the xy plane have integer lengths
ArrowVectors ==
    {v \in (((0 - MaxArrow)..MaxArrow) \X ((0 - MaxArrow)..MaxArrow)
            \X ((0 - MaxArrow)..MaxArrow)) :
        /\ IsSquare(v[1] * v[1] + v[2] * v[2] + v[3] * v[3])
        /\ IsSquare(v[1] * v[1] + v[2] * v[2])}

ArrowStarts == {<<x, y, z>> : x \in {0, 1}, y \in {0, 2}, z \in {0, -1}}

ArrowCall ==
    /\ CanCall
    /\ \E startPoint \in ArrowStarts, v \in ArrowVectors, s \in {0, 1} :
         LET endPoint == VecAdd(startPoint, v)
             R == Arrow(Here, startPoint, endPoint, s)
         IN  Finish("Arrow", R,
                    [factory |-> "Arrow", startPoint |-> startPoint,
                     endPoint |-> endPoint, s |-> s, axis |-> R.axis,
                     theta |-> R.theta, phi |-> R.phi, tip |-> R.tip,
                     pos |-> R.pos, base |-> R.base, top |-> R.top])
    /\ UNCHANGED <<line1, line2, actorArrays>>

(***************************************************************************)
(* Polygon.  Of vtkRegularPolygonSource the model keeps: the number of     *)
(* sides is clamped to at least 3; the source makes one vertex per side,   *)
(* vertex k at the angle k/n of a full turn on the circle of the given     *)
(* radius around the origin of the mesh.  A vertex is [r, num, den]: the   *)
(* point at distance r from the origin, at num/den of a full turn.         *)
(***************************************************************************)
\* a source that repeats the first vertex to close the outline
SourceSidesClosed(nsides) == (IF nsides < 3 THEN 3 ELSE nsides) + 1

\* line 949: ps.SetNumberOfSides(nsides)
SourceSides(nsides) == IF nsides < 3 THEN 3 ELSE nsides

\* lines 948-951: the points of ps.GetOutput()
PolygonVertices(nsides, r) ==
    LET n == SourceSides(nsides)
    IN  [k \in 1..n |-> [r |-> r, num |-> (k - 1) % n, den |-> n]]

\* cosine and sine of a multiple of 90 degrees
CosDeg(a) == CASE a % 360 = 0 -> 1 [] a % 360 = 180 -> -1 [] OTHER -> 0
SinDeg(a) == CASE a % 360 = 90 -> 1 [] a % 360 = 270 -> -1 [] OTHER -> 0

\* the coordinates of a vertex whose angle is a multiple of a quarter turn
VertexXYZ(vx) ==
    LET a == (360 * vx.num) \div vx.den
    IN  <<vx.r * CosDeg(a), vx.r * SinDeg(a), 0>>

Polygon(S, pos, nsides, r) ==
    LET id == Len(S.names) + 1
    IN  [reg |-> RegAppend(S.reg, id), names |-> Append(S.names, "Polygon"),
         status |-> "returned", exc |-> "", value |-> id,
         vertices |-> PolygonVertices(nsides, r), pos |-> pos]

PolygonCall ==
    /\ CanCall
    /\ \E pos \in ArrowStarts, nsides \in 0..MaxSides, r \in 0..MaxRadius :
         LET R == Polygon(Here, pos, nsides, r)
         IN  Finish("Polygon", R,
                    [factory |-> "Polygon", pos |-> R.pos, nsides |-> nsides,
                     r |-> r, vertices |-> R.vertices])
    /\ UNCHANGED <<line1, line2, actorArrays>>

(***************************************************************************)
(* Spheres.  centers is a list of n points; c and r are Python values: one *)
(* colour or one radius, or a list with an entry per sphere.  The built    *)
(* glyph carries the per-sphere array "colors" (ucols) or "scales"         *)
(* (urads), filled by the loops over the centres.                          *)
(***************************************************************************)
\* a test that rejects every list whose length is not the number of centres
SpheresMismatch(n, m) == n # m

\* lines 1124 and 1135: len(centers) > len(c), len(centers) > len(r)
SpheresTooShort(n, m) == n > m

\* lines 1165-1168 and 1175-1177: entry i of the list for centre i
SpheresColors(n, c) == [i \in 1..n |-> GetColor255(c.items[i])]
SpheresRadii(n, r) == [i \in 1..n |-> r.items[i].v]

Spheres(S, n, c, r) ==
    LET cisseq == isSequence(c)
        risseq == isSequence(r)
        fails == [reg |-> S.reg, names |-> S.names, status |-> "raised",
                  exc |-> "RuntimeError", value |-> None, ucols |-> <<>>, urads |-> <<>>]
        id == Len(S.names) + 1
    IN  IF cisseq /\ SpheresTooShort(n, PyLen(c)) THEN fails
        ELSE IF risseq /\ SpheresTooShort(n, PyLen(r)) THEN fails
        ELSE IF cisseq /\ risseq THEN fails
        ELSE [reg |-> RegAppend(S.reg, id), names |-> Append(S.names, "Spheres"),
              status |-> "returned", exc |-> "", value |-> id,
              ucols |-> IF cisseq THEN SpheresColors(n, c) ELSE <<>>,
              urads |-> IF risseq THEN SpheresRadii(n, r) ELSE <<>>]

SpheresColourInputs == {PyStr("r")} \cup {ColourList("name", m) : m \in 0..(MaxPts + 1)}
SpheresRadiusInputs == {PyNum(1)} \cup {AlphaList(m) : m \in 0..(MaxPts + 1)}

SpheresCall ==
    /\ CanCall
    /\ \E n \in 0..MaxPts, c \in SpheresColourInputs, r \in SpheresRadiusInputs :
         LET R == Spheres(Here, n, c, r)
         IN  Finish("Spheres", R,
                    [factory |-> "Spheres", n |-> n, c |-> c, r |-> r,
                     ucols |-> R.ucols, urads |-> R.urads])
    /\ UNCHANGED <<line1, line2, actorArrays>>

(***************************************************************************)
(* ParametricShape.  name is a Python value: an integer or a string.       *)
(***************************************************************************)
\* lines 1975-1978
shapes ==
    <<"Boy", "ConicSpiral", "CrossCap", "Dini", "Enneper",
      "Figure8Klein", "Klein", "Mobius", "RandomHills", "Roman",
      "SuperEllipsoid", "BohemianDome", "Bour", "CatalanMinimal",
      "Henneberg", "Kuen", "PluckerConoid", "Pseudosphere">>

\* an index that is clamped to the list
ShapeIndexClamped(k, n) == IF k < 0 THEN 0 ELSE IF k >= n THEN n - 1 ELSE k

\* line 1981: name % len(shapes); Python's % takes the sign of the divisor
ShapeIndex(k, n) == k % n

\* lines 1984-2022: the chain of comparisons; "" is the else branch
ParametricSource(name) ==
    CASE name = "Boy" -> "vtkParametricBoy"
      [] name = "ConicSpiral" -> "vtkParametricConicSpiral"
      [] name = "CrossCap" -> "vtkParametricCrossCap"
      [] name = "Dini" -> "vtkParametricDini"
      [] name = "Enneper" -> "vtkParametricEnneper"
      [] name = "Figure8Klein" -> "vtkParametricFigure8Klein"
      [] name = "Klein" -> "vtkParametricKlein"
      [] name = "Mobius" -> "vtkParametricMobius"
      [] name = "RandomHills" -> "vtkParametricRandomHills"
      [] name = "Roman" -> "vtkParametricRoman"
      [] name = "SuperEllipsoid" -> "vtkParametricSuperEllipsoid"
      [] name = "BohemianDome" -> "vtkParametricBohemianDome"
      [] name = "Bour" -> "vtkParametricBour"
      [] name = "CatalanMinimal" -> "vtkParametricCatalanMinimal"
      [] name = "Henneberg" -> "vtkParametricHenneberg"
      [] name = "Kuen" -> "vtkParametricKuen"
      [] name = "PluckerConoid" -> "vtkParametricPluckerConoid"
      [] name = "Pseudosphere" -> "vtkParametricPseudosphere"
      [] OTHER -> ""

ParametricShape(S, name) ==
    LET resolved == IF name.t = "num"
                    THEN shapes[ShapeIndex(name.v, Len(shapes)) + 1]
                    ELSE name.s
        ps == ParametricSource(resolved)
        id == Len(S.names) + 1
    IN  IF ps = ""
        THEN [reg |-> S.reg, names |-> S.names, status |-> "returned", exc |-> "",
              value |-> None, resolved |-> resolved, ps |-> ps,
              reported |-> "unknown name", normalized |-> FALSE]
        ELSE [reg |-> RegAppend(S.reg, id), names |-> Append(S.names, resolved),
              status |-> "returned", exc |-> "", value |-> id,
              resolved |-> resolved, ps |-> ps, reported |-> "",
              normalized |-> resolved # "Kuen"]

OtherShapeNames == {"", "boy", "Kuen ", "Sphere", "Torus"}

ShapeNameInputs ==
    {PyNum(k) : k \in (0 - MaxShapeIndex)..MaxShapeIndex}
    \cup {PyStr(shapes[i]) : i \in DOMAIN shapes}
    \cup {PyStr(n) : n \in OtherShapeNames}

ParametricShapeCall ==
    /\ CanCall
    /\ \E name \in ShapeNameInputs :
         LET R == ParametricShape(Here, name)
         IN  Finish("ParametricShape", R,
                    [factory |-> "ParametricShape", name |-> name,
                     resolved |-> R.resolved, ps |-> R.ps, reported |-> R.reported])
    /\ UNCHANGED <<line1, line2, actorArrays>>

(***************************************************************************)
(* Text.  pos is a Python value: a string, an integer, or a list of two or *)
(* three coordinates; font is a string.  Strings are tested as the code    *)
(* tests them: "x in pos" is a substring test, font.lower() a lower-casing.*)
(*   kind = "corner"  a vtkCornerAnnotation with the text in slot 1..8     *)
(*   kind = "2d"      a vtkActor2D at the screen position (x, y)           *)
(*   kind = "3d"      an Actor, named "Text"                               *)
(***************************************************************************)
LowerChar(ch) ==
    CASE ch = "A" -> "a"
      [] ch = "B" -> "b"
      [] ch = "C" -> "c"
      [] ch = "D" -> "d"
      [] ch = "E" -> "e"
      [] ch = "F" -> "f"
      [] ch = "G" -> "g"
      [] ch = "H" -> "h"
      [] ch = "I" -> "i"
      [] ch = "J" -> "j"
      [] ch = "K" -> "k"
      [] ch = "L" -> "l"
      [] ch = "M" -> "m"
      [] ch = "N" -> "n"
      [] ch = "O" -> "o"
      [] ch = "P" -> "p"
      [] ch = "Q" -> "q"
      [] ch = "R" -> "r"
      [] ch = "S" -> "s"
      [] ch = "T" -> "t"
      [] ch = "U" -> "u"
      [] ch = "V" -> "v"
      [] ch = "W" -> "w"
      [] ch = "X" -> "x"
      [] ch = "Y" -> "y"
      [] ch = "Z" -> "z"
      [] OTHER -> ch

\* str.lower()
RECURSIVE Lower(_)
Lower(str) ==
    IF Len(str) = 0 THEN ""
    ELSE LowerChar(SubSeq(str, 1, 1)) \o Lower(SubSeq(str, 2, Len(str)))

\* lines 1732-1744: a string pos is replaced by a number, or left as it is
TextCorner(pos) ==
    IF pos.t # "str" THEN pos
    ELSE IF StrIn("top", pos.s) THEN
        IF StrIn("left", pos.s) THEN PyNum(3)
        ELSE IF StrIn("mid", pos.s) THEN PyNum(8)
        ELSE IF StrIn("right", pos.s) THEN PyNum(4)
        ELSE pos
    ELSE IF StrIn("bottom", pos.s) THEN
        IF StrIn("left", pos.s) THEN PyNum(1)
        ELSE IF StrIn("mid", pos.s) THEN PyNum(5)
        ELSE IF StrIn("right", pos.s) THEN PyNum(2)
        ELSE pos
    ELSE
        IF StrIn("left", pos.s) THEN PyNum(7)
        ELSE IF StrIn("right", pos.s) THEN PyNum(6)
        ELSE PyNum(3)

\* lines 1747-1750
TextClamp(k) == IF k > 8 THEN 8 ELSE IF k < 1 THEN 1 ELSE k

\* settings.fonts: the bundled fonts, as listed in the docstring
fonts ==
    {"Ageo", "Aldora", "CallingCode", "Godsway", "Gula", "ImpactLabel", "Komiko",
     "Lamborgini", "MidnightDrive", "Militech", "MonaShark", "Montserrat",
     "MyDisplaySt", "PointedLaidSt", "SchoolTeacher", "SpecialElite"}

\* lines 1757-1762 and 1779-1794: the font family and font file that are set;
\* found = FALSE is the branch that reports the font and returns None
TextFont(font, checked, fileExists) ==
    LET low == Lower(font)
    IN  IF low \in {"courier", "times", "arial"}
        THEN [family |-> low, file |-> "", found |-> TRUE]
        ELSE IF ~checked \/ font \in fonts
        THEN [family |-> "file", file |-> "fonts_path/" \o font \o ".ttf", found |-> TRUE]
        ELSE IF fileExists
        THEN [family |-> "file", file |-> font, found |-> TRUE]
        ELSE [family |-> "file", file |-> "", found |-> FALSE]

Text(S, pos0, font, fileExists) ==
    LET pos == TextCorner(pos0)
        id == Len(S.names) + 1
        built(kind, slot, f, name) ==
            [reg |-> RegAppend(S.reg, id), names |-> Append(S.names, name),
             status |-> "returned", exc |-> "", value |-> id,
             kind |-> kind, slot |-> slot, family |-> f.family, file |-> f.file,
             reported |-> ""]
        nothing(status, exc, reported) ==
            [reg |-> S.reg, names |-> S.names, status |-> status, exc |-> exc,
             value |-> None, kind |-> "none", slot |-> 0, family |-> "", file |-> "",
             reported |-> reported]
    IN  IF pos.t = "num"
        THEN built("corner", TextClamp(pos.v), TextFont(font, FALSE, fileExists), "")
        ELSE IF PyLen(pos) = 2
        THEN LET f == TextFont(font, TRUE, fileExists)
             IN  IF f.found THEN built("2d", 0, f, "")
                 ELSE nothing("returned", "", "font not found")
        ELSE IF pos.t = "list" /\ PyLen(pos) = 3
        THEN built("3d", 0, [family |-> "", file |-> ""], "Text")
        ELSE \* line 1847: SetPosition of something that is not three numbers
             nothing("raised", "TypeError", "")

DocumentedAnchors ==
    {"bottom-left", "bottom-right", "top-left", "top-right",
     "bottom-middle", "middle-right", "middle-left", "top-middle"}

TextPosInputs ==
    {PyStr(n) : n \in DocumentedAnchors}
    \cup {PyStr(n) : n \in {"top", "bottom", "top-center", "center", "left",
                            "topright", "middle", "upper-right", "tl", ""}}
    \cup {PyNum(k) : k \in (0 - 1)..MaxAnchor}
    \cup {PyList(<<PyNum(10), PyNum(20)>>), PyList(<<PyNum(0), PyNum(1), PyNum(2)>>)}

TextFontInputs ==
    {"courier", "Courier", "times", "ARIAL", "Komiko", "comic", "/fonts/my.ttf"}

TextCall ==
    /\ CanCall
    /\ \E pos \in TextPosInputs, font \in TextFontInputs, fileExists \in BOOLEAN :
         LET R == Text(Here, pos, font, fileExists)
         IN  Finish("Text", R,
                    [factory |-> "Text", pos |-> pos, font |-> font,
                     fileExists |-> fileExists, kind |-> R.kind, slot |-> R.slot,
                     family |-> R.family, file |-> R.file, reported |-> R.reported])
    /\ UNCHANGED <<line1, line2, actorArrays>>

(***************************************************************************)
(* Star.  pts are the vertices of the regular polygon of n sides and       *)
(* radius r2 (numbered from 0 as in the code).  A vertex of the star is    *)
(* [kind, a, b]: "outer" is pts[a]; "inner" is (pts[a]+pts[b])/2*r1/r2;    *)
(* "centre" is (0,0,0).  A cell is a triple of indices into apts, from 0.  *)
(***************************************************************************)
StarOuter(a) == [kind |-> "outer", a |-> a, b |-> a]
StarInner(a, b) == [kind |-> "inner", a |-> a, b |-> b]
StarCentre == [kind |-> "centre", a |-> 0, b |-> 0]

\* lines 985-990: the outline
StarOutline(n) ==
    LET npts == SourceSides(n)
        step(i) == IF i + 1 < n THEN <<StarOuter(i), StarInner(i, i + 1)>>
                   ELSE <<StarOuter(i)>>
        RECURSIVE upto(_)
        upto(i) == IF i < 0 THEN <<>> ELSE upto(i - 1) \o step(i)
    IN  upto(npts - 1) \o <<StarInner(npts - 1, 0)>>

\* a loop that makes one triangle more
StarFanLoopLong(n) == [k \in 1..(2 * n) |-> k - 1]

\* line 998: for i in range(2*n-1)
StarFanLoop(n) == IF 2 * n - 1 < 1 THEN <<>> ELSE [k \in 1..(2 * n - 1) |-> k - 1]

\* lines 996-1001: the triangles; the last one uses the value that the loop
\* variable i was left with (by this loop or, if it is empty, by line 986)
StarCells(n) ==
    LET loop == StarFanLoop(n)
        iLeft == IF Len(loop) > 0 THEN loop[Len(loop)] ELSE SourceSides(n) - 1
    IN  [k \in 1..Len(loop) |-> <<2 * n, loop[k], loop[k] + 1>>]
        \o << <<2 * n, iLeft + 1, 0>> >>

Star(S, pos, n, line) ==
    LET outline == StarOutline(n)
    IN  IF line
        THEN \* Line(apts) registers the actor (line 993), line 1005 registers it again
             LET L == Line(S)
             IN  [reg |-> RegAppend(L.reg, L.value),
                  names |-> [L.names EXCEPT ![L.value] = "Star"],
                  status |-> "returned", exc |-> "", value |-> L.value,
                  apts |-> outline \o <<StarOuter(0)>>, cells |-> <<>>, pos |-> pos]
        ELSE LET id == Len(S.names) + 1
             IN  [reg |-> RegAppend(S.reg, id), names |-> Append(S.names, "Star"),
                  status |-> "returned", exc |-> "", value |-> id,
                  apts |-> outline \o <<StarCentre>>, cells |-> StarCells(n),
                  pos |-> pos]

StarCall(Ps, Ns) ==
    /\ CanCall
    /\ \E pos \in Ps, n \in Ns, line \in BOOLEAN :
         LET R == Star(Here, pos, n, line)
         IN  Finish("Star", R,
                    [factory |-> "Star", pos |-> R.pos, n |-> n, line |-> line,
                     apts |-> R.apts, cells |-> R.cells])
    /\ UNCHANGED <<line1, line2, actorArrays>>

(***************************************************************************)
(* Marker.  symbol is a Python value (an integer or a string); the size s  *)
(* is [isInt, tenths]: the number tenths/10, an int or a float.  A shape   *)
(* is [src, nsides, size, rotZ, squeeze, txt, line], with size in          *)
(* thousandths of a unit: the factory called, its arguments, and what is   *)
(* done to the actor it returns.                                           *)
(***************************************************************************)
\* line 68
symbs == <<".", "p", "*", "h", "D", "d", "o", "v", "^", ">", "<", "s", "x", "a">>

\* list[i] of Python, for -len <= i < len
PyIndex(list, i) == IF i < 0 THEN list[Len(list) + i + 1] ELSE list[i + 1]

MarkerPolygon(nsides, size, rotZ, squeeze) ==
    [src |-> "Polygon", nsides |-> nsides, size |-> size, rotZ |-> rotZ,
     squeeze |-> squeeze, txt |-> "", line |-> FALSE]
MarkerText(txt, size, rotZ) ==
    [src |-> "Text", nsides |-> 0, size |-> size, rotZ |-> rotZ,
     squeeze |-> FALSE, txt |-> txt, line |-> FALSE]
NoShape == [src |-> "", nsides |-> 0, size |-> 0, rotZ |-> 0,
            squeeze |-> FALSE, txt |-> "", line |-> FALSE]

\* lines 71-102: the shape built for a symbol that is a string
MarkerShape(symbol, t, filled) ==
    CASE symbol = "." -> MarkerPolygon(24, 75 * t, 0, FALSE)
      [] symbol = "p" -> MarkerPolygon(5, 100 * t, 0, FALSE)
      [] symbol = "*" -> [src |-> "Star", nsides |-> 5, size |-> 100 * t, rotZ |-> 0,
                          squeeze |-> FALSE, txt |-> "", line |-> ~filled]
      [] symbol = "h" -> MarkerPolygon(6, 100 * t, 0, FALSE)
      [] symbol = "D" -> MarkerPolygon(4, 100 * t, 0, FALSE)
      [] symbol = "d" -> MarkerPolygon(4, 110 * t, 0, TRUE)
      [] symbol = "o" -> MarkerPolygon(24, 75 * t, 0, FALSE)
      [] symbol = "v" -> MarkerPolygon(3, 100 * t, 180, FALSE)
      [] symbol = "^" -> MarkerPolygon(3, 100 * t, 0, FALSE)
      [] symbol = ">" -> MarkerPolygon(3, 100 * t, 0 - 90, FALSE)
      [] symbol = "<" -> MarkerPolygon(3, 100 * t, 90, FALSE)
      [] symbol = "s" -> MarkerPolygon(4, 100 * t, 45, FALSE)
      [] symbol = "x" -> MarkerText("+", 260 * t, 45)
      [] symbol = "a" -> MarkerText("*", 300 * t, 0)
      [] OTHER -> MarkerText(symbol, 200 * t, 0)

\* line 69: symbs[s]
MarkerIndex(symbol, s) == s

Marker(S, symbol, s, filled) ==
    LET fails(e) == [reg |-> S.reg, names |-> S.names, status |-> "raised", exc |-> e,
                     value |-> None, shape |-> NoShape]
        idx == MarkerIndex(symbol, s)
        i == idx.tenths \div 10
        build(sym) ==
            LET shape == MarkerShape(sym, s.tenths, filled)
                D == CASE shape.src = "Polygon" ->
                            Polygon(S, <<0, 0, 0>>, shape.nsides, shape.size)
                       [] shape.src = "Star" -> Star(S, <<0, 0, 0>>, 5, shape.line)
                       [] OTHER -> Text(S, PyList(<<PyNum(0), PyNum(0), PyNum(0)>>),
                                        "courier", FALSE)
            IN  [reg |-> D.reg, names |-> [D.names EXCEPT ![D.value] = "Marker"],
                 status |-> "returned", exc |-> "", value |-> D.value, shape |-> shape]
    IN  IF symbol.t = "num"
        THEN IF ~idx.isInt THEN fails("TypeError")
             ELSE IF i < 0 - Len(symbs) \/ i >= Len(symbs) THEN fails("IndexError")
             ELSE build(PyIndex(symbs, i))
        ELSE build(symbol.s)

MarkerSizes ==
    {[isInt |-> FALSE, tenths |-> 1], [isInt |-> FALSE, tenths |-> 10]}
    \cup {[isInt |-> TRUE, tenths |-> 10 * k] : k \in (0 - 1)..MaxMarkerSize}

MarkerSymbols ==
    {PyNum(k) : k \in 0..(Len(symbs) - 1)}
    \cup {PyStr(symbs[k]) : k \in DOMAIN symbs}
    \cup {PyStr("z"), PyStr("+")}

MarkerCall(Symbols, Sizes) ==
    /\ CanCall
    /\ \E symbol \in Symbols, s \in Sizes, filled \in BOOLEAN :
         LET R == Marker(Here, symbol, s, filled)
         IN  Finish("Marker", R,
                    [factory |-> "Marker", symbol |-> symbol, s |-> s,
                     filled |-> filled, shape |-> R.shape])
    /\ UNCHANGED <<line1, line2, actorArrays>>

(***************************************************************************)
(* Cylinder and Cone.  Points and vectors are [v, d] (the integer vector v *)
(* divided by d), so that midpoints and unit vectors are exact; the axis   *)
(* is taken among the vectors of integer length.                           *)
(***************************************************************************)
Pt(v) == [v |-> v, d |-> 1]
PtAdd(p, q) == [v |-> <<p.v[1] * q.d + q.v[1] * p.d, p.v[2] * q.d + q.v[2] * p.d,
                        p.v[3] * q.d + q.v[3] * p.d>>, d |-> p.d * q.d]
PtSub(p, q) == [v |-> <<p.v[1] * q.d - q.v[1] * p.d, p.v[2] * q.d - q.v[2] * p.d,
                        p.v[3] * q.d - q.v[3] * p.d>>, d |-> p.d * q.d]
\* the vector p times the number num/den
PtTimes(p, num, den) == [v |-> <<p.v[1] * num, p.v[2] * num, p.v[3] * num>>, d |-> p.d * den]
PtEq(p, q) == \A k \in 1..3 : p.v[k] * q.d = q.v[k] * p.d

\* utils.versor: the vector divided by its norm
versor(v) == [v |-> v, d |-> Norm(v)]

\* lines 1500-1506: pos = [v1, v2]
CylinderEnds(v1, v2) ==
    LET base == Pt(v1)
        top == Pt(v2)
    IN  [base |-> base, top |-> top, pos |-> PtTimes(PtAdd(base, top), 1, 2),
         height |-> Norm(VecSub(v2, v1)), axis |-> versor(VecSub(v2, v1))]

\* lines 1507-1510: pos, axis and height
CylinderCentre(pos, axis, height) ==
    LET a == versor(axis)
    IN  [base |-> PtSub(Pt(pos), PtTimes(a, height, 2)),
         top |-> PtAdd(Pt(pos), PtTimes(a, height, 2)),
         pos |-> Pt(pos), height |-> height, axis |-> a]

\* lines 1531-1537; g is what lines 1500-1510 computed
Cylinder(S, g) ==
    LET id == Len(S.names) + 1
    IN  [reg |-> RegAppend(S.reg, id), names |-> Append(S.names, "Cylinder"),
         status |-> "returned", exc |-> "", value |-> id,
         pos |-> g.pos, base |-> PtAdd(g.base, g.pos), top |-> PtAdd(g.top, g.pos)]

\* lines 1552-1559
Cone(S, pos, axis, height) ==
    LET id == Len(S.names) + 1
        v == PtTimes(versor(axis), height, 2)
    IN  [reg |-> RegAppend(S.reg, id), names |-> Append(S.names, "Cone"),
         status |-> "returned", exc |-> "", value |-> id,
         pos |-> Pt(pos), base |-> PtSub(Pt(pos), v), top |-> PtAdd(Pt(pos), v)]

AxisVectors == ArrowVectors \ {<<0, 0, 0>>}

CylinderEndsCall(Ps, Vs) ==
    /\ CanCall
    /\ \E v1 \in Ps, v \in Vs :
         LET v2 == VecAdd(v1, v)
             R == Cylinder(Here, CylinderEnds(v1, v2))
         IN  Finish("Cylinder", R,
                    [factory |-> "Cylinder", mode |-> "ends", v1 |-> v1, v2 |-> v2,
                     axis |-> v, height |-> 0,
                     pos |-> R.pos, base |-> R.base, top |-> R.top])
    /\ UNCHANGED <<line1, line2, actorArrays>>

CylinderCentreCall(Ps, Vs, Hs) ==
    /\ CanCall
    /\ \E pos \in Ps, axis \in Vs, height \in Hs :
         LET R == Cylinder(Here, CylinderCentre(pos, axis, height))
         IN  Finish("Cylinder", R,
                    [factory |-> "Cylinder", mode |-> "centre", v1 |-> pos, v2 |-> pos,
                     axis |-> axis, height |-> height,
                     pos |-> R.pos, base |-> R.base, top |-> R.top])
    /\ UNCHANGED <<line1, line2, actorArrays>>

ConeCall(Ps, Vs, Hs) ==
    /\ CanCall
    /\ \E pos \in Ps, axis \in Vs, height \in Hs :
         LET R == Cone(Here, pos, axis, height)
         IN  Finish("Cone", R,
                    [factory |-> "Cone", mode |-> "centre", v1 |-> pos, v2 |-> pos,
                     axis |-> axis, height |-> height,
                     pos |-> R.pos, base |-> R.base, top |-> R.top])
    /\ UNCHANGED <<line1, line2, actorArrays>>

(***************************************************************************)
(* Grid.  With two coordinate lists the mesh is given to Actor as the list *)
(* of vertices and the list of faces; otherwise a vtkPlaneSource of        *)
(* resolution (resx, resy) is scaled by sx and sy.                         *)
(***************************************************************************)
\* lines 1317-1318: for x in sx: verts.append([x, y, 0])
GridRow(sx, y) == [i \in 1..Len(sx) |-> <<sx[i], y, 0>>]

RECURSIVE GridVerts(_, _)
\* lines 1316-1318: for y in sy
GridVerts(sx, sy) ==
    IF sy = <<>> THEN <<>>
    ELSE GridRow(sx, Head(sy)) \o GridVerts(sx, Tail(sy))

\* line 1325
GridFace(i, j, n) ==
    LET j1n == (j + 1) * n
    IN  <<i + j * n, i + 1 + j * n, i + 1 + j1n, i + j1n>>

GridRowFacesFull(j, n) == [k \in 1..n |-> GridFace(k - 1, j, n)]

\* lines 1324-1325: for i in range(n-1)
GridRowFaces(j, n) == [k \in 1..(n - 1) |-> GridFace(k - 1, j, n)]

RECURSIVE GridFaces(_, _, _)
\* lines 1322-1325: for j in range(m-1), from row j on
GridFaces(j, n, m) ==
    IF j >= m - 1 THEN <<>>
    ELSE GridRowFaces(j, n) \o GridFaces(j + 1, n, m)

\* lines 1315-1356
Grid(S, sx, sy, resx, resy) ==
    LET id == Len(S.names) + 1
        lists == isSequence(sx) /\ isSequence(sy)
    IN  [reg |-> RegAppend(S.reg, id), names |-> Append(S.names, "Grid"),
         status |-> "returned", exc |-> "", value |-> id,
         source |-> IF lists THEN "lists" ELSE "vtkPlaneSource",
         verts |-> IF lists THEN GridVerts(sx.items, sy.items) ELSE <<>>,
         faces |-> IF lists THEN GridFaces(0, Len(sx.items), Len(sy.items)) ELSE <<>>,
         resolution |-> IF lists THEN <<>> ELSE <<resx, resy>>]

GridCoords == 0..2
GridLists == UNION {[1..k -> GridCoords] : k \in 1..MaxGrid}
GridSizes == {PyNum(k) : k \in 1..2}
\* (resx, resy): the default and another one
GridResolutions == {<<10, 10>>, <<1, 3>>}

GridCall(Xs, Ys) ==
    /\ CanCall
    /\ \E sx \in Xs, sy \in Ys, res \in GridResolutions :
         LET resx == res[1]
             resy == res[2]
             R == Grid(Here, sx, sy, resx, resy)
         IN  Finish("Grid", R,
                    [factory |-> "Grid", sx |-> sx, sy |-> sy, resx |-> resx, resy |-> resy,
                     source |-> R.source, verts |-> R.verts, faces |-> R.faces,
                     resolution |-> R.resolution])
    /\ UNCHANGED <<line1, line2, actorArrays>>

(***************************************************************************)
(* Factories built on other factories, and the remaining factories that    *)
(* the claims about the registry name.  A call is described by the factory *)
(* and by the case of its input.                                           *)
(***************************************************************************)
\* what a call that built nothing leaves
Failed(S, status, exc) ==
    [reg |-> S.reg, names |-> S.names, status |-> status, exc |-> exc, value |-> None]

\* a factory that returns the delegate's object under the delegate's name
KeepsDelegateName(D, name) ==
    IF D.status = "raised" THEN Failed(D, "raised", D.exc)
    ELSE IF D.value = None THEN Failed(D, "raised", "AttributeError")
    ELSE [reg |-> D.reg, names |-> D.names,
          status |-> "returned", exc |-> "", value |-> D.value]

\* actor.name = name; return actor, where actor is what the delegate D returned
Renamed(D, name) ==
    IF D.status = "raised" THEN Failed(D, "raised", D.exc)
    ELSE IF D.value = None THEN Failed(D, "raised", "AttributeError")
    ELSE [reg |-> D.reg, names |-> [D.names EXCEPT ![D.value] = name],
          status |-> "returned", exc |-> "", value |-> D.value]

\* a factory that builds one actor from a vtk source, registers and names it
Built(S, name) ==
    [reg |-> RegAppend(S.reg, Len(S.names) + 1), names |-> Append(S.names, name),
     status |-> "returned", exc |-> "", value |-> Len(S.names) + 1]

\* lines 109-115
Point(S, pos) ==
    LET pos3 == IF Len(pos) = 2 THEN <<pos[1], pos[2], 0>> ELSE pos
    IN  Renamed(Points(S, <<pos3>>, 12, PyStr("red"), AlphaOne), "Point")

\* lines 963-968; res is the number of sides
Circle(S, pos, r, res) ==
    LET pos3 == IF Len(pos) = 2 THEN <<pos[1], pos[2], 0>> ELSE pos
    IN  Renamed(Polygon(S, pos3, res, r), "Circle")

\* lines 1366-1390
Plane(S) == Built(S, "Plane")

\* lines 1012-1019
Rectangle(S) == Renamed(Plane(S), "Rectangle")

\* lines 1400-1412
Box(S) == Built(S, "Box")

\* lines 1420-1422
Cube(S) == Renamed(Box(S), "Cube")

\* lines 1566-1568
Pyramid(S, pos, axis, height) == Renamed(Cone(S, pos, axis, height), "Pyramid")

\* lines 915-939: the start points become a Points actor, which Glyph
\* decorates with arrows; with no point at all Points returns None and
\* .off() raises
Arrows(S, startPoints) ==
    LET P == Points(S, startPoints, 0, PyStr("r"), AlphaOne)
    IN  IF P.status = "raised" THEN Failed(P, "raised", P.exc)
        ELSE IF P.value = None THEN Failed(P, "raised", "AttributeError")
        ELSE LET G == Glyph(P)
             IN  [reg |-> RegAppend(G.reg, G.value),
                  names |-> [G.names EXCEPT ![G.value] = "Arrows"],
                  status |-> "returned", exc |-> "", value |-> G.value]

\* lines 1070-1090
Arc(S, point2Given, normalGiven, angleGiven) ==
    IF point2Given THEN Built(S, "Arc")
    ELSE IF normalGiven /\ angleGiven THEN Built(S, "Arc")
    ELSE Failed(S, "returned", "")

\* lines 1445-1487: the helix is a Line, the spring a tube around it
Spring(S, startPoint, endPoint) ==
    LET diff == VecSub(endPoint, startPoint)
    IN  IF diff = <<0, 0, 0>> THEN Failed(S, "returned", "")
        ELSE Built(Line(S), "Spring")

\* a call that runs in one step and is described by the case of its input
Call(factory, R, case) ==
    /\ CanCall
    /\ Finish(factory, [reg |-> R.reg, names |-> R.names, status |-> R.status,
                        exc |-> R.exc, value |-> R.value],
              [factory |-> factory, case |-> case])
    /\ UNCHANGED <<line1, line2, actorArrays>>

TwoPoints == <<<<0, 0, 0>>, <<1, 0, 0>>>>

PointCall == \E pos \in {<<1, 2>>, <<1, 2, 3>>} : Call("Point", Point(Here, pos), pos)

CircleCall == Call("Circle", Circle(Here, <<0, 0>>, 1, 120), "default")

RectangleCall == Call("Rectangle", Rectangle(Here), "default")

CubeCall == Call("Cube", Cube(Here), "default")

PyramidCall == Call("Pyramid", Pyramid(Here, <<0, 0, 0>>, <<0, 0, 1>>, 1), "default")

ArrowsCall ==
    \E startPoints \in {<<>>, TwoPoints} :
        Call("Arrows", Arrows(Here, startPoints), startPoints)

ArcCall ==
    \E case \in {<<TRUE, FALSE, FALSE>>, <<FALSE, TRUE, TRUE>>, <<FALSE, TRUE, FALSE>>,
                 <<FALSE, FALSE, FALSE>>} :
        Call("Arc", Arc(Here, case[1], case[2], case[3]), case)

SpringCall ==
    \E endPoint \in {<<0, 0, 0>>, <<1, 0, 0>>} :
        Call("Spring", Spring(Here, <<0, 0, 0>>, endPoint), endPoint)

SplineOfCall ==
    \E points \in {<<>>, TwoPoints} :
        Call("KSpline", KSpline(Here, points, FALSE, 0), points)

StarOfCall ==
    \E line \in BOOLEAN :
        Call("Star", Star(Here, <<0, 0, 0>>, 5, line), IF line THEN "line" ELSE "filled")

MarkerOfCall ==
    \E symbol \in {"o", "*", "z"}, filled \in BOOLEAN :
        Call("Marker", Marker(Here, PyStr(symbol), [isInt |-> TRUE, tenths |-> 10], filled),
             <<symbol, filled>>)

TextOfCall ==
    \E pos \in {PyList(<<PyNum(10), PyNum(20)>>), PyList(<<PyNum(0), PyNum(1), PyNum(2)>>)},
       font \in {"courier", "comic"} :
        Call("Text", Text(Here, pos, font, FALSE), <<pos, font>>)

ShapeOfCall ==
    \E name \in {"Boy", "boy"} :
        Call("ParametricShape", ParametricShape(Here, PyStr(name)), name)

LatexOfCall ==
    \E img \in {"written", "failed"} :
        Call("Latex", Latex(Here, img, FALSE), img)

SpheresOfCall ==
    \E c \in {PyStr("r"), ColourList("name", 1), ColourList("name", 2)} :
        Call("Spheres", Spheres(Here, 2, c, PyNum(1)), c)

(***************************************************************************)
(* Specifications.                                                         *)
(***************************************************************************)
\* one call of Points, over all the input shapes
NextPoints == ncalls = 0 /\ PointsCall(0..MaxPts, {2, 3}, AllColours, AllAlphas)

SpecPoints == Init /\ [][NextPoints]_vars

\* one call of KSpline
NextKSpline == ncalls = 0 /\ KSplineCall

SpecKSpline == Init /\ [][NextKSpline]_vars

\* one call of DashedLine
NextDashedLine == ncalls = 0 /\ DashedLineCall

SpecDashedLine == Init /\ [][NextDashedLine]_vars

\* one call of Arrow
NextArrow == ncalls = 0 /\ ArrowCall

SpecArrow == Init /\ [][NextArrow]_vars

\* one call of Polygon
NextPolygon == ncalls = 0 /\ PolygonCall

SpecPolygon == Init /\ [][NextPolygon]_vars

\* one call of Spheres
NextSpheres == ncalls = 0 /\ SpheresCall

SpecSpheres == Init /\ [][NextSpheres]_vars

\* calls of Latex with fromweb=True.  The program's own steps are taken when
\* they can be; nothing makes the remote end answer.
NextLatexWeb == LatexWebBegin \/ LatexWebAnswer \/ LatexWebEnd

SpecLatexWeb == Init /\ [][NextLatexWeb]_vars /\ WF_vars(LatexWebEnd)

\* one call of ParametricShape
NextParametricShape == ncalls = 0 /\ ParametricShapeCall

SpecParametricShape == Init /\ [][NextParametricShape]_vars

\* one call of Text
NextText == ncalls = 0 /\ TextCall

SpecText == Init /\ [][NextText]_vars

\* one call of Star
NextStar == ncalls = 0 /\ StarCall(ArrowStarts, 0..MaxSides)

SpecStar == Init /\ [][NextStar]_vars

\* one call of Marker
NextMarker == ncalls = 0 /\ MarkerCall(MarkerSymbols, MarkerSizes)

SpecMarker == Init /\ [][NextMarker]_vars

\* one call of Points, over the layouts of its input
NextPointsLayout == ncalls = 0 /\ PointsLayoutCall

SpecPointsLayout == Init /\ [][NextPointsLayout]_vars

\* one call of Cylinder or Cone
NextCylinder ==
    /\ ncalls = 0
    /\ \/ CylinderEndsCall(ArrowStarts, AxisVectors)
       \/ CylinderCentreCall(ArrowStarts, AxisVectors, 1..MaxRadius)
       \/ ConeCall(ArrowStarts, AxisVectors, 1..MaxRadius)

SpecCylinder == Init /\ [][NextCylinder]_vars

\* one call of Grid, with two coordinate lists or with two sizes
NextGrid ==
    /\ ncalls = 0
    /\ \/ GridCall({PyList(xs) : xs \in GridLists}, {PyList(ys) : ys \in GridLists})
       \/ GridCall(GridSizes, GridSizes)

SpecGrid == Init /\ [][NextGrid]_vars

\* calls of the factories built on other factories and of the factories
\* that can fail
NextFactories ==
    \/ PointCall
    \/ CircleCall
    \/ RectangleCall
    \/ CubeCall
    \/ PyramidCall
    \/ ArrowsCall
    \/ ArcCall
    \/ SpringCall
    \/ SplineOfCall
    \/ StarOfCall
    \/ MarkerOfCall
    \/ TextOfCall
    \/ ShapeOfCall
    \/ LatexOfCall
    \/ SpheresOfCall
    \/ PointsCall({0, 2, 3}, {3}, FewColours, {AlphaOne})
    \/ FlatArrowBegin
    \/ FlatArrowRibbon
    \/ FlatArrowPop
    \/ FlatArrowEnd

SpecFactories == Init /\ [][NextFactories]_vars

\* the factories that the registry claims are about
Next ==
    \/ PointsCall({0, 2}, {3}, FewColours, FewAlphas)
    \/ LatexCall
    \/ TensorsCall
    \/ GlyphCall
    \/ RibbonCall
    \/ FlatArrowBegin
    \/ FlatArrowRibbon
    \/ FlatArrowPop
    \/ FlatArrowEnd

Spec == Init /\ [][Next]_vars

(***************************************************************************)
(* Claims about the registry.                                              *)
(***************************************************************************)
\* C1: every value a factory returns is a renderable object or None, and
\* every entry of the registry is a renderable object, never None.
C1_RegistryValid ==
    /\ \A i \in DOMAIN collectable_actors : IsActor(collectable_actors[i])
    /\ ret.status = "returned" => (ret.value = None \/ IsActor(ret.value))

\* C5 as stated: at every step the registry's length does not decrease and
\* the entries it held stay where they were.
C5_AppendOnly ==
    [][/\ Len(collectable_actors') >= Len(collectable_actors)
       /\ SubSeq(collectable_actors', 1, Len(collectable_actors)) = collectable_actors]_vars

\* C5 as amended: the entries present before a call keep their positions
\* during and after the call, so the registry is never shorter than when the
\* call began; the only step that shortens it is FlatArrow's pop (line 841),
\* which removes the one entry that FlatArrow's own Ribbon call appended.
C5_EarlierEntriesKept ==
    /\ [](/\ Len(collectable_actors) >= Len(reg0)
          /\ SubSeq(collectable_actors, 1, Len(reg0)) = reg0)
    /\ [][Len(collectable_actors') < Len(collectable_actors)
          => /\ pc = "FlatArrow_841"
             /\ collectable_actors = RegAppend(collectable_actors', out.actor)
             /\ collectable_actors' = reg0]_vars

C5_Witness ==
    /\ pc = "FlatArrow_842"
    /\ Len(reg0) >= 1
    /\ collectable_actors = reg0

\* C6: every object a public factory returns is an entry of the registry.
C6_ReturnedIsRegistered ==
    (pc = "idle" /\ ret.status = "returned" /\ ret.value # None)
    => ret.value \in Range(collectable_actors)

\* C7: a call changes nothing that belongs to the caller: the point lists
\* given to FlatArrow and the point data of the actor given to Glyph stay
\* as they were.
C7_ArgumentsUnchanged ==
    [][line1' = line1 /\ line2' = line2 /\ actorArrays' = actorArrays]_vars

(***************************************************************************)
(* Claims about Points.                                                    *)
(***************************************************************************)
PointsCalled == out.factory = "Points" /\ Len(out.plist) >= 1

\* the colour that the k-th entry of a colour array stands for
ExpectedColour(item) ==
    IF item.t = "list" /\ Len(item.items) = 4
    THEN <<item.items[1].v, item.items[2].v, item.items[3].v>>
    ELSE GetColor255(item)

\* C2: for N >= 1 points and a colour array of length N, Points returns an
\* actor with N points whose k-th point carries the k-th colour of the array.
C2_PerPointColours ==
    (/\ PointsCalled
     /\ isSequence(out.c) /\ PyLen(out.c) = Len(out.plist)
     /\ ~isSequence(out.alpha))
    => /\ ret.status = "returned" /\ ret.value # None
       /\ out.actor.npts = Len(out.plist)
       /\ \A k \in 1..Len(out.plist) :
            PointColour(out.actor, k) = ExpectedColour(out.c.items[k])

\* C3: a colour array or an alpha array whose length differs from the number
\* of points always ends the call with an error.
C3_MismatchRaises ==
    (/\ PointsCalled
     /\ \/ isSequence(out.c) /\ PyLen(out.c) # Len(out.plist)
        \/ isSequence(out.alpha) /\ PyLen(out.alpha) # Len(out.plist))
    => ret.status = "raised"

\* C4: N points, one single colour and an alpha array of length N give an
\* actor with N points whose k-th point carries the k-th alpha.
C4_PerPointAlphas ==
    (/\ PointsCalled
     /\ ~isSequence(out.c)
     /\ isSequence(out.alpha) /\ PyLen(out.alpha) = Len(out.plist))
    => /\ ret.status = "returned" /\ ret.value # None
       /\ out.actor.npts = Len(out.plist)
       /\ \A k \in 1..Len(out.plist) :
            PointAlpha(out.actor, k) = 255 * out.alpha.items[k].v

(***************************************************************************)
(* Claims about KSpline.                                                   *)
(***************************************************************************)
KSplineBuilt == out.factory = "KSpline" /\ ret.status = "returned"

\* the parameter <<num, den>> is the integer i
ParamIs(pos, i) == pos[1] = i * pos[2]

\* C8: for a closed KSpline over N points the curve takes the same value at
\* the parameters 0 and N, and these are the first and the last parameter
\* sampled: the first and the last vertex of the polyline coincide.
C8_ClosedSplineCloses ==
    (KSplineBuilt /\ out.closed)
    => LET n == Len(out.points)
           ends == KSplineVertices(out.points, TRUE, << <<0, 1>>, <<n, 1>> >>)
       IN  /\ ends[1] = ends[2]
           /\ ParamIs(out.params[1], 0)
           /\ Len(out.params) > 1 => ParamIs(out.params[Len(out.params)], n)
           /\ out.ln[1] = out.ln[Len(out.ln)]

C8_Witness ==
    /\ KSplineBuilt /\ out.closed
    /\ Len(out.points) >= 2
    /\ out.points[1] # out.points[Len(out.points)]
    /\ Len(out.ln) >= 2
    /\ out.ln[1] = out.ln[Len(out.ln)]

\* C9: with the default resolution every input point is sampled (for every
\* i in 0..N-1 a sampled parameter equals i), and an open curve is not
\* sampled beyond its last knot N-1.
C9_RunsThroughInputPoints ==
    (KSplineBuilt /\ out.res = 0 /\ Len(out.points) >= 2)
    => LET n == Len(out.points)
       IN  /\ \A i \in 0..(n - 1) :
                \E k \in DOMAIN out.params : ParamIs(out.params[k], i)
           /\ ~out.closed
                => \A k \in DOMAIN out.params :
                     out.params[k][1] <= (n - 1) * out.params[k][2]

(***************************************************************************)
(* Claims about DashedLine.                                                *)
(***************************************************************************)
SegmentLength(listp) == Abs(listp[2][1] - listp[1][1])

OneSegment ==
    /\ out.factory = "DashedLine"
    /\ Len(out.listp) = 2
    /\ out.spacing > 0
    /\ out.spacing <= SegmentLength(out.listp)

\* the dashes that have two distinct end points
VisibleDashes(dashes) == SelectSeq(dashes, LAMBDA d : d.a # d.b)

\* C10: over one segment of length L, with a spacing s, 0 < s <= L, the
\* number D of dashes differs from L/(2s) by at most one: |2sD - L| <= 2s,
\* whether or not the dash of zero length at the end of the segment is counted.
C10_DashCount ==
    OneSegment
    => /\ ret.status = "returned"
       /\ Abs(2 * out.spacing * Len(out.dashes) - SegmentLength(out.listp))
            <= 2 * out.spacing
       /\ Abs(2 * out.spacing * Len(VisibleDashes(out.dashes))
               - SegmentLength(out.listp)) <= 2 * out.spacing

C10_Witness ==
    /\ OneSegment
    /\ ret.status = "returned"
    /\ Len(out.dashes) >= 2
    /\ SegmentLength(out.listp) % out.spacing # 0

\* the odd-numbered sub-segments of a segment cut into n1 pieces
OddSubSegments(n1) == {i \in 1..n1 : i % 2 = 1}

\* the segments of a polyline that are cut into at least one piece
CutSegments(listp, spacing) ==
    LET sp == DashSpacing(listp, spacing)
    IN  {ipt \in 1..(Len(listp) - 1) : DashN1(listp[ipt], listp[ipt + 1], sp) > 0}

\* C11: of a segment cut into n1 equal sub-segments exactly the odd-numbered
\* ones are emitted: every dash is one whole sub-segment i (from (i-1)/n1 to
\* i/n1 of the segment, i odd, i <= n1), every such sub-segment is a dash,
\* and there is no dash of zero length and no dash past p1.
C11_OnlyOddSubSegments ==
    (out.factory = "DashedLine" /\ ret.status = "returned")
    => LET sp == DashSpacing(out.listp, out.spacing)
       IN  /\ \A k \in DOMAIN out.dashes :
                LET d == out.dashes[k]
                IN  /\ d.b = d.a + 1
                    /\ d.b \in OddSubSegments(d.n1)
                    /\ d.n1 = DashN1(out.listp[d.seg], out.listp[d.seg + 1], sp)
           /\ \A ipt \in CutSegments(out.listp, out.spacing) :
                \A i \in OddSubSegments(DashN1(out.listp[ipt], out.listp[ipt + 1], sp)) :
                    \E k \in DOMAIN out.dashes :
                        out.dashes[k].seg = ipt /\ out.dashes[k].b = i

(***************************************************************************)
(* Claims about Arrow.                                                     *)
(***************************************************************************)
ArrowCalled == out.factory = "Arrow"

\* C12: Arrow with startPoint = endPoint divides by no zero length: the call
\* returns a renderable placed at startPoint with base = top = startPoint.
C12_ZeroLengthArrow ==
    (ArrowCalled /\ out.startPoint = out.endPoint)
    => /\ ~out.axis.byZero
       /\ ret.status = "returned" /\ IsActor(ret.value)
       /\ out.pos = out.startPoint
       /\ out.base = out.startPoint
       /\ out.top = out.startPoint

C12_Witness ==
    /\ ArrowCalled /\ out.startPoint = out.endPoint
    /\ out.startPoint # <<0, 0, 0>>
    /\ ret.status = "returned"

\* C13: for startPoint # endPoint the angles are derived from the axis
\* (endPoint - startPoint)/|endPoint - startPoint| (theta has the cosine
\* axis[2], phi is the direction of (axis[0], axis[1])), the arrow is placed
\* at startPoint, top - base = endPoint - startPoint, and the transformed
\* tip of the template is endPoint - startPoint away from the position: the
\* arrow points from startPoint to endPoint.
C13_ArrowDirection ==
    (ArrowCalled /\ out.startPoint # out.endPoint)
    => LET v == VecSub(out.endPoint, out.startPoint)
       IN  /\ ret.status = "returned"
           /\ out.axis.divided /\ out.axis.v = v /\ out.axis.d > 0
           /\ out.axis.d * out.axis.d = v[1] * v[1] + v[2] * v[2] + v[3] * v[3]
           /\ out.theta.d > 0 /\ out.theta.s >= 0
           /\ out.theta.c * out.axis.d = v[3] * out.theta.d
           /\ out.theta.c * out.theta.c + out.theta.s * out.theta.s
                = out.theta.d * out.theta.d
           /\ out.phi.d > 0
           /\ out.phi.c * out.phi.c + out.phi.s * out.phi.s = out.phi.d * out.phi.d
           /\ out.phi.c * v[2] = out.phi.s * v[1]
           /\ out.pos = out.startPoint
           /\ VecSub(out.top, out.base) = v
           /\ out.tip.d > 0
           /\ out.tip.v = <<out.tip.d * v[1], out.tip.d * v[2], out.tip.d * v[3]>>

C13_Witness ==
    /\ ArrowCalled
    /\ ret.status = "returned"
    /\ out.startPoint # <<0, 0, 0>>
    /\ VecSub(out.endPoint, out.startPoint) = <<0, -3, 4>>
    /\ out.tip.d > 0

(***************************************************************************)
(* Claims about Polygon.                                                   *)
(***************************************************************************)
\* the square of the distance between two points
Dist2(p, q) == (p[1] - q[1]) * (p[1] - q[1]) + (p[2] - q[2]) * (p[2] - q[2])
               + (p[3] - q[3]) * (p[3] - q[3])

\* C14: Polygon with nsides = n >= 3 and radius r gives a mesh of exactly n
\* vertices, all distinct and each at distance r from the centre; for n = 4
\* the four vertices, seen from the position of the actor, are at
\* distance r from pos.
C14_PolygonVertices ==
    (out.factory = "Polygon" /\ out.nsides >= 3)
    => /\ ret.status = "returned"
       /\ Len(out.vertices) = out.nsides
       /\ \A k \in DOMAIN out.vertices : out.vertices[k].r = out.r
       /\ \A j, k \in DOMAIN out.vertices :
            j # k => out.vertices[j].num # out.vertices[k].num
       /\ out.nsides = 4
            => \A k \in 1..4 :
                 Dist2(VecAdd(out.pos, VertexXYZ(out.vertices[k])), out.pos)
                    = out.r * out.r

C14_Witness ==
    /\ out.factory = "Polygon"
    /\ out.nsides = 4 /\ out.r = 2
    /\ out.pos # <<0, 0, 0>>
    /\ Len(out.vertices) = 4

(***************************************************************************)
(* Claims about Spheres.                                                   *)
(***************************************************************************)
SpheresCalled == out.factory = "Spheres"

C16_FailureReturnsNone ==
    (/\ pc = "idle" /\ ret.factory = "Latex" /\ out.factory = "Latex"
     /\ (out.img \in {"offline", "failed"} \/ out.pictureRaises))
    => ret.status = "returned" /\ ret.value = None

\* C17: a Latex call with fromweb=True that has sent its request always
\* eventually ends.
C17_WebCallEnds == (pc = "Latex_1890") ~> (pc = "idle")

(***************************************************************************)
(* Claims about ParametricShape.                                           *)
(***************************************************************************)
\* the names of the documented list (lines 1959-1962)
DocumentedShapes ==
    <<"Boy", "ConicSpiral", "CrossCap", "Dini", "Enneper",
      "Figure8Klein", "Klein", "Mobius", "RandomHills", "Roman",
      "SuperEllipsoid", "BohemianDome", "Bour", "CatalanMinimal",
      "Henneberg", "Kuen", "PluckerConoid", "Pseudosphere">>

\* C18: an integer k selects the shape at index k mod 18 of the documented
\* list, a string of the list selects that shape, and in both cases a
\* renderable named after the selected shape is returned and registered;
\* any other string is reported as an unknown name and None is returned.
C18_ShapeNameResolution ==
    (out.factory = "ParametricShape" /\ pc = "idle")
    => LET isInt == out.name.t = "num"
           known == out.name.t = "str" /\ out.name.s \in Range(DocumentedShapes)
           selected == IF isInt THEN DocumentedShapes[(out.name.v % 18) + 1]
                       ELSE out.name.s
       IN  /\ Len(DocumentedShapes) = 18
           /\ ret.status = "returned"
           /\ (isInt \/ known)
                => /\ IsActor(ret.value)
                   /\ names[ret.value] = selected
                   /\ out.ps = ParametricSource(selected) /\ out.ps # ""
                   /\ ret.value \in Range(collectable_actors)
           /\ ~(isInt \/ known)
                => /\ ret.value = None
                   /\ out.reported = "unknown name"
                   /\ collectable_actors = reg0

C18_Witness ==
    /\ out.factory = "ParametricShape"
    /\ out.name.t = "num" /\ out.name.v = -19
    /\ IsActor(ret.value)
    /\ names[ret.value] = "Pseudosphere"

(***************************************************************************)
(* Claims about Text.                                                      *)
(***************************************************************************)
TextCalled == out.factory = "Text"

\* the documented number of an anchor name
DocumentedAnchor(name) ==
    CASE name = "bottom-left" -> 1
      [] name = "bottom-right" -> 2
      [] name = "top-left" -> 3
      [] name = "top-right" -> 4
      [] name = "bottom-middle" -> 5
      [] name = "middle-right" -> 6
      [] name = "middle-left" -> 7
      [] name = "top-middle" -> 8
      [] OTHER -> 0

\* C19: Text with pos a string or an integer always builds a corner
\* annotation in one of the slots 1..8: a documented name gets its documented
\* number, an integer is clamped to 1..8, and every other string gets a
\* default slot.
C19_CornerAnchors ==
    (TextCalled /\ out.pos.t \in {"str", "num"})
    => /\ ret.status = "returned" /\ IsActor(ret.value)
       /\ out.kind = "corner"
       /\ out.slot \in 1..8
       /\ (out.pos.t = "str" /\ out.pos.s \in DocumentedAnchors)
            => out.slot = DocumentedAnchor(out.pos.s)
       /\ out.pos.t = "num"
            => out.slot = (IF out.pos.v > 8 THEN 8 ELSE IF out.pos.v < 1 THEN 1
                           ELSE out.pos.v)

\* a font that is neither courier, times or arial, nor bundled, nor a file
UnknownFont ==
    /\ Lower(out.font) \notin {"courier", "times", "arial"}
    /\ out.font \notin fonts
    /\ ~out.fileExists

\* C20: in both 2D modes (corner annotation, screen position (x, y)) Text
\* with an unknown font reports the font and returns None.
C20_UnknownFontReturnsNone ==
    (/\ TextCalled
     /\ \/ out.pos.t = "num"
        \/ out.pos.t = "str" /\ out.pos.s \in DocumentedAnchors
        \/ out.pos.t = "list" /\ PyLen(out.pos) = 2
     /\ UnknownFont)
    => /\ ret.status = "returned" /\ ret.value = None
       /\ out.reported = "font not found"

(***************************************************************************)
(* Claims about Tensors.                                                   *)
(***************************************************************************)
\* C21: Tensors called with a source name that is none of the presets falls
\* back to a default shape or reports the unknown name: the call returns (a
\* renderable or None) and does not end in a fault.
C21_UnknownSourceHandled ==
    (/\ pc = "idle" /\ out.factory = "Tensors"
     /\ out.source \notin {"ellipsoid", "cylinder", "cube", "actor"})
    => ret.status = "returned"

(***************************************************************************)
(* Claims about Star.                                                      *)
(***************************************************************************)
\* C25: Star with n >= 3 cusps and line=False builds 2n+1 vertices (outer
\* and inner vertices alternating at the indices 0..2n-1, the centre at 2n)
\* and exactly 2n triangles, one triangle (2n, i, (i+1) mod 2n) for every i
\* in 0..2n-1; every index of every cell is in 0..2n.
C25_StarFan ==
    (out.factory = "Star" /\ pc = "idle" /\ ~out.line /\ out.n >= 3)
    => LET n == out.n
       IN  /\ ret.status = "returned" /\ IsActor(ret.value)
           /\ Len(out.apts) = 2 * n + 1
           /\ \A k \in 0..(2 * n - 1) :
                out.apts[k + 1].kind = (IF k % 2 = 0 THEN "outer" ELSE "inner")
           /\ \A k \in 0..(n - 1) :
                /\ out.apts[2 * k + 1] = StarOuter(k)
                /\ out.apts[2 * k + 2] = StarInner(k, (k + 1) % n)
           /\ out.apts[2 * n + 1].kind = "centre"
           /\ Len(out.cells) = 2 * n
           /\ \A i \in 0..(2 * n - 1) :
                Cardinality({k \in DOMAIN out.cells :
                                out.cells[k] = <<2 * n, i, (i + 1) % (2 * n)>>}) = 1
           /\ \A k \in DOMAIN out.cells : \A j \in 1..3 : out.cells[k][j] \in 0..(2 * n)

C25_Witness ==
    /\ out.factory = "Star" /\ ~out.line
    /\ out.n = 5
    /\ Len(out.cells) = 10
    /\ out.cells[10] = <<10, 9, 0>>

(***************************************************************************)
(* Claims about Marker.                                                    *)
(***************************************************************************)
\* C22: Marker called with an integer k in 0..13 builds, for every size s,
\* the shape it builds for the k-th symbol of the vocabulary; called with a
\* string outside the vocabulary it builds a text glyph of that string.
C22_MarkerVocabulary ==
    (out.factory = "Marker" /\ pc = "idle")
    => /\ (out.symbol.t = "num" /\ out.symbol.v \in 0..13)
            => /\ ret.status = "returned"
               /\ out.shape = MarkerShape(symbs[out.symbol.v + 1], out.s.tenths,
                                          out.filled)
       /\ (out.symbol.t = "str" /\ out.symbol.s \notin Range(symbs))
            => /\ ret.status = "returned"
               /\ out.shape.src = "Text" /\ out.shape.txt = out.symbol.s

(***************************************************************************)
(* Claims about the layouts of the input of Points.                        *)
(***************************************************************************)
\* the points that an actor shows: its mesh points moved by its position
ShownPoints(actor) == [j \in 1..Len(actor.pts) |-> VecAdd(actor.pts[j], actor.pos)]

LayoutCalled ==
    /\ out.factory = "Points" /\ pc = "idle"
    /\ ~(isSequence(out.c) /\ PyLen(out.c) # out.n)

\* C23: for N > 3 the layout [all_x, all_y, all_z] gives the same N points
\* as the list of the N points, and the layout [all_x, all_y] gives the N
\* points with z = 0; a list of N two-element points gives N points with
\* z = 0.
C23_BothLayouts ==
    LayoutCalled
    => LET n == out.n
           asGiven == Points(Here, LayoutInput("pts3", n), 5, out.c, out.alpha)
       IN  /\ (out.layout \in {"pts3", "rows3"} /\ n > 3)
                => /\ ret.status = "returned" /\ IsActor(ret.value)
                   /\ out.actor.npts = n
                   /\ ShownPoints(out.actor) = [j \in 1..n |-> LayoutPoint(j)]
                   /\ out.actor.pts = asGiven.actor.pts
           /\ (out.layout = "pts2" \/ (out.layout = "rows2" /\ n > 3))
                => /\ ret.status = "returned" /\ IsActor(ret.value)
                   /\ out.actor.npts = n
                   /\ ShownPoints(out.actor)
                        = [j \in 1..n |-> <<LayoutPoint(j)[1], LayoutPoint(j)[2], 0>>]

C23_Witness ==
    /\ LayoutCalled
    /\ out.layout = "rows3" /\ out.n = 4
    /\ ret.status = "returned"
    /\ out.actor.pts[4] = <<4, 14, 24>>

(***************************************************************************)
(* Claims about Cylinder and Cone.                                         *)
(***************************************************************************)
\* C24: Cylinder called with pos = [v1, v2] records the base v1 and the top
\* v2; Cylinder (and Cone) called with a centre pos, an axis and a height
\* record the base pos - a*height/2 and the top pos + a*height/2, with a the
\* normalised axis.
C24_CylinderBaseTop ==
    (out.factory \in {"Cylinder", "Cone"} /\ pc = "idle")
    => /\ ret.status = "returned"
       /\ out.mode = "ends"
            => PtEq(out.base, Pt(out.v1)) /\ PtEq(out.top, Pt(out.v2))
       /\ out.mode = "centre"
            => LET half == PtTimes(versor(out.axis), out.height, 2)
               IN  /\ PtEq(out.base, PtSub(Pt(out.v1), half))
                   /\ PtEq(out.top, PtAdd(Pt(out.v1), half))

(***************************************************************************)
(* Claims about Grid.                                                      *)
(***************************************************************************)
GridOfLists == pc = "idle" /\ out.factory = "Grid" /\ out.source = "lists"

\* C26: Grid called with the coordinate lists sx (n values) and sy (m
\* values) builds n*m vertices, the vertex (i, j) at index i + j*n being
\* (sx[i], sy[j], 0), and the (n-1)*(m-1) faces
\* [i+j*n, i+1+j*n, i+1+(j+1)*n, i+(j+1)*n]; every face index is in
\* 0..n*m-1, and the mesh is the same whatever resx and resy are.
C26_GridMesh ==
    GridOfLists =>
      LET n == Len(out.sx.items)
          m == Len(out.sy.items)
      IN  /\ ret.status = "returned"
          /\ Len(out.verts) = n * m
          /\ \A i \in 0..(n - 1), j \in 0..(m - 1) :
                out.verts[i + j * n + 1] = <<out.sx.items[i + 1], out.sy.items[j + 1], 0>>
          /\ Len(out.faces) = (n - 1) * (m - 1)
          /\ Range(out.faces) =
                {<<i + j * n, i + 1 + j * n, i + 1 + (j + 1) * n, i + (j + 1) * n>> :
                    i \in 0..(n - 2), j \in 0..(m - 2)}
          /\ \A f \in Range(out.faces) : \A k \in 1..4 : f[k] \in 0..(n * m - 1)
          /\ out.resolution = <<>>

C26_Witness ==
    /\ GridOfLists
    /\ Len(out.sx.items) = 3 /\ Len(out.sy.items) = 2
    /\ out.resx # out.resy
    /\ Len(out.faces) = 2

(***************************************************************************)
(* Claims about the factories built on other factories.                    *)
(***************************************************************************)
Delegating ==
    {"Point", "Circle", "Rectangle", "Cube", "Pyramid", "FlatArrow", "KSpline",
     "Arrows", "Marker", "Star"}

\* a call of one of the delegating factories has returned an object
DelegateReturned ==
    /\ pc = "idle"
    /\ ret.factory \in Delegating
    /\ ret.status = "returned" /\ ret.value # None
    /\ ret.factory = "Star" => out.case = "line"

\* C27: the object returned by Point, Circle, Rectangle, Cube, Pyramid,
\* FlatArrow, KSpline, Arrows, Marker and Star (line=True) carries the name
\* of that factory, not the name of the factory it was built with.
C27_OwnNameTag == DelegateReturned => names[ret.value] = ret.factory

C27_Witness ==
    /\ DelegateReturned
    /\ ret.factory = "Arrows"
    /\ Len(reg0) >= 1
    /\ "Points" \in Range(names)

Succeeded ==
    /\ pc = "idle"
    /\ ret.factory # "none"
    /\ ret.status = "returned" /\ ret.value # None

\* C28: each successful call of a factory grows the registry by exactly one
\* entry, the returned object; no helper object is registered and the
\* result is not registered twice.
C28_OneEntryPerCall == Succeeded => collectable_actors = RegAppend(reg0, ret.value)

FailureSignalled ==
    /\ pc = "idle"
    /\ ret.factory \in {"Points", "Arc", "Spring", "Text", "ParametricShape", "Latex",
                        "Spheres"}
    /\ ret.status = "raised" \/ ret.value = None

\* C29: a call of Points, Arc, Spring, Text, ParametricShape, Latex or
\* Spheres that signals failure, by returning None or by raising, leaves the
\* registry exactly as it was before the call.
C29_FailureKeepsRegistry == FailureSignalled => collectable_actors = reg0

(***************************************************************************)
(* Claims about the faults of DashedLine.                                  *)
(***************************************************************************)
\* C30: for every polyline of at least two points and every spacing, given
\* or omitted, DashedLine returns an object or None; it never ends with an
\* exception, also when no dash is emitted and when the default spacing is
\* zero.
C30_DashedLineReturns ==
    (pc = "idle" /\ out.factory = "DashedLine" /\ Len(out.listp) >= 2)
    => ret.status = "returned"

====
